---- MODULE Spec2Model ----
(***************************************************************************)
(* A model of earley-parser.js: the Grammar class (addRule, setOption,     *)
(* parse) and the Tokenizer class (addType, tokenize).                     *)
(*                                                                         *)
(* JavaScript strings are sequences of one-character strings, so that      *)
(* concatenation, splitting and regular-expression matching are computed   *)
(* rather than assumed.  JavaScript values that can occur in a parse tree  *)
(* are records [k, s, c]: k is the kind ("str", "arr", "flag", "undef",    *)
(* "null"), s the characters of a string, c the elements of an array.      *)
(***************************************************************************)
EXTENDS Integers, Sequences, FiniteSets, TLC

(***************************************************************************)
(* Regular expressions.  A RegExp is modelled by its source, a sequence    *)
(* of characters, interpreted the way the JavaScript engine interprets     *)
(* it: alternation | binds weakest, ( ) and (?: ) group, ^ and $ are the   *)
(* start and end assertions, \x is the literal x, . is any character and   *)
(* every other character is a literal.  Positions count the characters     *)
(* consumed so far.  The Match operators return, in the engine's priority  *)
(* order, the end states of the matches that start in the state m.         *)
(***************************************************************************)
RECURSIVE CloseFrom(_, _, _)
CloseFrom(src, k, depth) ==
    IF k > Len(src) THEN k
    ELSE IF src[k] = "\\" THEN CloseFrom(src, k + 2, depth)
    ELSE IF src[k] = "(" THEN CloseFrom(src, k + 1, depth + 1)
    ELSE IF src[k] = ")"
         THEN IF depth = 1 THEN k ELSE CloseFrom(src, k + 1, depth - 1)
    ELSE CloseFrom(src, k + 1, depth)

\* The index of the ] that closes the class whose first item is at k.
RECURSIVE ClassEnd(_, _)
ClassEnd(src, k) ==
    IF k > Len(src) \/ src[k] = "]" THEN k
    ELSE IF src[k] = "\\" THEN ClassEnd(src, k + 2)
    ELSE ClassEnd(src, k + 1)

\* The index of the last character of the atom that starts at index lo.
AtomEnd(src, lo) ==
    IF src[lo] = "(" THEN CloseFrom(src, lo + 1, 1)
    ELSE IF src[lo] = "[" THEN ClassEnd(src, lo + 1)
    ELSE IF src[lo] = "\\" THEN lo + 1
    ELSE lo

\* The index of the first | of src[lo..hi] outside every group, 0 if none.
RECURSIVE FirstBar(_, _, _)
FirstBar(src, k, hi) ==
    IF k > hi THEN 0
    ELSE IF src[k] = "|" THEN k
    ELSE FirstBar(src, AtomEnd(src, k) + 1, hi)

\* The number of capturing groups that open in src[k..hi].
RECURSIVE GroupsIn(_, _, _)
GroupsIn(src, k, hi) ==
    IF k > hi \/ k > Len(src) THEN 0
    ELSE IF src[k] = "\\" THEN GroupsIn(src, k + 2, hi)
    ELSE IF src[k] = "(" /\ ~(k < Len(src) /\ src[k + 1] = "?")
         THEN 1 + GroupsIn(src, k + 1, hi)
    ELSE GroupsIn(src, k + 1, hi)

\* A state of the matcher: the position p and the captures so far, for
\* each group the positions << from, to >> of its text or << >>.
NoCaptures(src) == [g \in 1 .. GroupsIn(src, 1, Len(src)) |-> << >>]

\* The group that opens at index lo and closes at e is (?: ), which
\* captures nothing.
PlainGroup(src, lo, e) ==
    lo + 2 <= e /\ src[lo + 1] = "?" /\ src[lo + 2] = ":"

\* The index of the first character of the body of that group.
GroupBody(src, lo, e) == IF PlainGroup(src, lo, e) THEN lo + 3 ELSE lo + 1

\* The end states of that group's body, which started at position p: a
\* capturing group records the text it matched.
Captured(src, lo, e, p, inner) ==
    IF PlainGroup(src, lo, e) THEN inner
    ELSE [n \in 1 .. Len(inner) |->
             [inner[n] EXCEPT !.caps[GroupsIn(src, 1, lo)] = << p, inner[n].p >>]]

\* The code units of the decimal digits, for the ranges of a class.
DigitIndex(ch) ==
    CASE ch = "0" -> 0 [] ch = "1" -> 1 [] ch = "2" -> 2 [] ch = "3" -> 3
      [] ch = "4" -> 4 [] ch = "5" -> 5 [] ch = "6" -> 6 [] ch = "7" -> 7
      [] ch = "8" -> 8 [] ch = "9" -> 9 [] OTHER -> -1

\* The class whose items are src[k .. e - 1] has the character ch: an item
\* is a character or a range x-y of digits.
RECURSIVE ClassHas(_, _, _, _)
ClassHas(src, k, e, ch) ==
    IF k >= e THEN FALSE
    ELSE IF src[k] = "\\" THEN (k + 1 < e /\ src[k + 1] = ch) \/ ClassHas(src, k + 2, e, ch)
    ELSE IF k + 2 < e /\ src[k + 1] = "-"
         THEN \/ /\ DigitIndex(ch) >= 0
                 /\ DigitIndex(src[k]) >= 0
                 /\ DigitIndex(src[k]) <= DigitIndex(ch)
                 /\ DigitIndex(ch) <= DigitIndex(src[k + 2])
              \/ ClassHas(src, k + 3, e, ch)
    ELSE src[k] = ch \/ ClassHas(src, k + 1, e, ch)

\* The quantifier that follows the atom ending at e: ?, + or *, or none.
Quantifier(src, e, hi) ==
    IF e + 1 <= hi /\ src[e + 1] \in {"?", "+", "*"} THEN src[e + 1] ELSE ""

\* The matcher state m with one character more consumed, if ok.
Advance(m, ok) == IF ok THEN << [m EXCEPT !.p = m.p + 1] >> ELSE << >>

RECURSIVE MatchAlt(_, _, _, _, _)
RECURSIVE MatchSeq(_, _, _, _, _)
RECURSIVE MatchRest(_, _, _, _, _)
RECURSIVE MatchAtom(_, _, _, _, _)
RECURSIVE MatchStar(_, _, _, _, _)
RECURSIVE MatchMore(_, _, _, _, _, _)

\* Disjunction: the left alternative's matches come before the right's.
MatchAlt(src, lo, hi, str, m) ==
    LET bar == FirstBar(src, lo, hi)
    IN  IF bar = 0 THEN MatchSeq(src, lo, hi, str, m)
        ELSE MatchSeq(src, lo, bar - 1, str, m)
                 \o MatchAlt(src, bar + 1, hi, str, m)

\* One atom, src[lo .. e], without its quantifier.
MatchAtom(src, lo, e, str, m) ==
    IF src[lo] = "^" THEN IF m.p = 0 THEN << m >> ELSE << >>
    ELSE IF src[lo] = "$" THEN IF m.p = Len(str) THEN << m >> ELSE << >>
    ELSE IF src[lo] = "("
        THEN Captured(src, lo, e, m.p,
                      MatchAlt(src, GroupBody(src, lo, e), e - 1, str, m))
    ELSE IF m.p >= Len(str) THEN << >>
    ELSE IF src[lo] = "[" THEN Advance(m, ClassHas(src, lo + 1, e, str[m.p + 1]))
    ELSE IF src[lo] = "\\" THEN Advance(m, str[m.p + 1] = src[lo + 1])
    ELSE Advance(m, src[lo] = "." \/ str[m.p + 1] = src[lo])

\* The atom any number of times from the state m, greedy: the matches
\* with more repetitions come first.
MatchStar(src, lo, e, str, m) ==
    MatchMore(src, lo, e, str, m, MatchAtom(src, lo, e, str, m)) \o << m >>

\* The atom repeated after one more repetition from m has ended in ends;
\* a repetition that consumes nothing is not repeated.
MatchMore(src, lo, e, str, m, ends) ==
    IF ends = << >> THEN << >>
    ELSE (IF Head(ends).p > m.p THEN MatchStar(src, lo, e, str, Head(ends))
          ELSE << Head(ends) >>)
             \o MatchMore(src, lo, e, str, m, Tail(ends))

\* One alternative: its atoms, left to right, each with its quantifier.
MatchSeq(src, lo, hi, str, m) ==
    IF lo > hi THEN << m >>
    ELSE IF Quantifier(src, AtomEnd(src, lo), hi) = ""
        THEN MatchRest(src, AtomEnd(src, lo) + 1, hi, str,
                       MatchAtom(src, lo, AtomEnd(src, lo), str, m))
    ELSE IF Quantifier(src, AtomEnd(src, lo), hi) = "?"
        THEN MatchRest(src, AtomEnd(src, lo) + 2, hi, str,
                       MatchAtom(src, lo, AtomEnd(src, lo), str, m) \o << m >>)
    ELSE IF Quantifier(src, AtomEnd(src, lo), hi) = "+"
        THEN MatchRest(src, AtomEnd(src, lo) + 2, hi, str,
                       MatchMore(src, lo, AtomEnd(src, lo), str, m,
                                 MatchAtom(src, lo, AtomEnd(src, lo), str, m)))
    ELSE MatchRest(src, AtomEnd(src, lo) + 2, hi, str,
                   MatchStar(src, lo, AtomEnd(src, lo), str, m))

\* The rest of an alternative, continued from each end state in turn.
MatchRest(src, lo, hi, str, ends) ==
    IF ends = << >> THEN << >>
    ELSE MatchSeq(src, lo, hi, str, Head(ends))
             \o MatchRest(src, lo, hi, str, Tail(ends))

\* RegExp.prototype.exec without the g or y flag: the leftmost start
\* position that has a match, and there the match of highest priority.
\* The match is [index, last, caps]: match[0] is str[index + 1 .. last].
RECURSIVE ExecFrom(_, _, _)
RECURSIVE ExecAt(_, _, _, _)
ExecFrom(src, str, p) ==
    IF p > Len(str)
    THEN [matched |-> FALSE, index |-> 0, last |-> 0, caps |-> << >>]
    ELSE ExecAt(src, str, p,
                MatchAlt(src, 1, Len(src), str, [p |-> p, caps |-> NoCaptures(src)]))

\* The matches that start at position p are ends: the first one is the
\* result, and without one the search goes on at p + 1.
ExecAt(src, str, p, ends) ==
    IF ends # << >>
    THEN [matched |-> TRUE, index |-> p, last |-> Head(ends).p,
          caps |-> Head(ends).caps]
    ELSE ExecFrom(src, str, p + 1)

RegExpExec(src, str) == ExecFrom(src, str, 0)

\* RegExp.prototype.test
RegExpTest(src, str) == RegExpExec(src, str).matched

\* RegExp.prototype.toString of a RegExp without flags
RegExpToString(src) == << "/" >> \o src \o << "/" >>

(***************************************************************************)
(* JavaScript values and strings.                                          *)
(***************************************************************************)
Str(chars) == [k |-> "str", s |-> chars, c |-> << >>]
Arr(elems) == [k |-> "arr", s |-> << >>, c |-> elems]
\* The object  const expressionBuilderFlag = { }  of parse.
expressionBuilderFlag == [k |-> "flag", s |-> << >>, c |-> << >>]
Undefined == [k |-> "undef", s |-> << >>, c |-> << >>]
Null == [k |-> "null", s |-> << >>, c |-> << >>]
False == [k |-> "false", s |-> << >>, c |-> << >>]
\* An object { key : v, ... }: its properties in the order they were set,
\* each a key with the property's content.
Prop(key, v) == [k |-> "prop", s |-> key, c |-> << v >>]
Obj(props) == [k |-> "obj", s |-> << >>, c |-> props]
\* The value a throw statement or a failed property access leaves instead
\* of a result; e names the error.
Thrown(e) == [k |-> "throw", s |-> << e >>, c |-> << >>]

\* ToBoolean: undefined, null, false and the empty string are falsy.
Truthy(v) == IF v.k = "str" THEN v.s # << >> ELSE v.k \in {"arr", "flag", "obj"}

\* String( {} ), what abstract equality turns the flag object into.
ObjectObject ==
    << "[", "o", "b", "j", "e", "c", "t", " ", "O", "b", "j", "e", "c", "t", "]" >>
UndefinedText == << "u", "n", "d", "e", "f", "i", "n", "e", "d" >>

\* A split that finds no separator.
SplitNone(chars) == << chars >>

\* String.prototype.split( ' ' )
RECURSIVE SplitFrom(_, _, _)
SplitFrom(chars, k, cur) ==
    IF k > Len(chars) THEN << cur >>
    ELSE IF chars[k] = " " THEN << cur >> \o SplitFrom(chars, k + 1, << >>)
    ELSE SplitFrom(chars, k + 1, Append(cur, chars[k]))
Split(chars) == SplitFrom(chars, 1, << >>)

\* String.prototype.indexOf( needle ) > -1
Contains(chars, needle) ==
    \E p \in 0 .. Len(chars) :
        /\ p + Len(needle) <= Len(chars)
        /\ SubSeq(chars, p + 1, p + Len(needle)) = needle

(***************************************************************************)
(* Entries of a right-hand side: a string (the name of a nonterminal) or   *)
(* a RegExp (a terminal), and null for what getNext returns at the end.    *)
(***************************************************************************)
Name(chars) == [t |-> "string", s |-> chars]
RegExp(src) == [t |-> "regexp", s |-> src]
NullEntry == [t |-> "null", s |-> << >>]

getNext(state) ==
    IF state.pos < Len(state.rhs) THEN state.rhs[state.pos + 1] ELSE NullEntry

\* copyState: a fresh object with its own got array.
copyState(state) ==
    [lhs |-> state.lhs, rhs |-> state.rhs, pos |-> state.pos,
     ori |-> state.ori, got |-> state.got]

\* entry == string, the abstract equality of JavaScript: a RegExp is
\* converted with toString, null equals no string.
LooseEquals(entry, chars) ==
    IF entry.t = "string" THEN entry.s = chars
    ELSE IF entry.t = "regexp" THEN RegExpToString(entry.s) = chars
    ELSE FALSE

equalArrays(array1, array2) ==
    /\ Len(array1) = Len(array2)
    /\ \A n \in 1 .. Len(array1) :
          LET entry1 == array1[n]
              entry2 == array2[n]
          IN  IF entry1.t = "regexp"
              THEN entry2.t = "regexp" /\ entry1.s = entry2.s
              ELSE LooseEquals(entry2, entry1.s)

(***************************************************************************)
(* Tokenizer.  A token type is [regexp, formatter]; a formatter is a       *)
(* function, named by f, or a template string.  The functions are          *)
(*   "identity"  x => x            (the default of addType)                *)
(*   "drop"      () => null                                                *)
(*   "empty"     () => ''                                                  *)
(*   "false"     () => false                                               *)
(***************************************************************************)
Formatter(f) == [t |-> "function", f |-> f]
Template(chars) == [t |-> "string", f |-> chars]

\* addType: a source that does not begin with ^ is wrapped in ^(?: ).
addType(tokenTypes, regexp, formatter) ==
    LET wrapped == IF regexp # << >> /\ regexp[1] = "^" THEN regexp
                   ELSE << "^", "(", "?", ":" >> \o regexp \o << ")" >>
    IN  Append(tokenTypes, [regexp |-> wrapped, formatter |-> formatter])

\* type.formatter( match[0], match ) for a function
ApplyFormatter(f, text) ==
    IF f = "identity" THEN Str(text)
    ELSE IF f = "empty" THEN Str(<< >>)
    ELSE IF f = "false" THEN False
    ELSE Null

Digits == {"0", "1", "2", "3", "4", "5", "6", "7", "8", "9"}

DigitValue(ch) ==
    CASE ch = "0" -> 0 [] ch = "1" -> 1 [] ch = "2" -> 2 [] ch = "3" -> 3
      [] ch = "4" -> 4 [] ch = "5" -> 5 [] ch = "6" -> 6 [] ch = "7" -> 7
      [] ch = "8" -> 8 [] ch = "9" -> 9

\* The index after the digits that start at index k of format.
RECURSIVE DigitsEnd(_, _)
DigitsEnd(format, k) ==
    IF k <= Len(format) /\ format[k] \in Digits THEN DigitsEnd(format, k + 1)
    ELSE k

\* /\%([0-9]+)/.exec( format ): the index of the first % that a digit
\* follows, from index k on; 0 if there is none.
RECURSIVE PlaceholderFrom(_, _)
PlaceholderFrom(format, k) ==
    IF k >= Len(format) THEN 0
    ELSE IF format[k] = "%" /\ format[k + 1] \in Digits THEN k
    ELSE PlaceholderFrom(format, k + 1)

RECURSIVE NumberOf(_, _)
NumberOf(digits, acc) ==
    IF digits = << >> THEN acc
    ELSE NumberOf(Tail(digits), 10 * acc + DigitValue(Head(digits)))

\* match[ key ] as it is added to a string: the property named key of the
\* match array.  An array has its elements under the decimal numerals of
\* their indices; a missing property and a group that took no part in the
\* match are undefined.
MatchProperty(match, str, key) ==
    LET n == NumberOf(key, 0)
    IN  IF Len(key) > 1 /\ key[1] = "0" THEN UndefinedText
        ELSE IF n = 0 THEN SubSeq(str, match.index + 1, match.last)
        ELSE IF n > Len(match.caps) THEN UndefinedText
        ELSE IF match.caps[n] = << >> THEN UndefinedText
        ELSE SubSeq(str, match.caps[n][1] + 1, match.caps[n][2])

\* A template loop that drops the text in front of a placeholder.
RECURSIVE ExpandTemplateNoLiteral(_, _, _, _)
ExpandTemplateNoLiteral(format, token, match, str) ==
    LET k == PlaceholderFrom(format, 1)
        e == DigitsEnd(format, k + 1)
    IN  IF k = 0 THEN token \o format
        ELSE ExpandTemplateNoLiteral(SubSeq(format, e, Len(format)),
                                     token \o MatchProperty(match, str,
                                                   SubSeq(format, k + 1, e - 1)),
                                     match, str)

\* The while loop over the placeholders of a template, and token + format.
RECURSIVE ExpandTemplate(_, _, _, _)
ExpandTemplate(format, token, match, str) ==
    LET k == PlaceholderFrom(format, 1)
        e == DigitsEnd(format, k + 1)
    IN  IF k = 0 THEN token \o format
        ELSE ExpandTemplate(SubSeq(format, e, Len(format)),
                            token \o SubSeq(format, 1, k - 1)
                                  \o MatchProperty(match, str,
                                                   SubSeq(format, k + 1, e - 1)),
                            match, str)

\* A pass that skips a character no type matches.
RECURSIVE TokenizeTypesSkipping(_, _, _, _)
TokenizeTypesSkipping(tokenTypes, n, input, result) ==
    IF n > Len(tokenTypes)
    THEN [input |-> Tail(input), result |-> result, type |-> 0, text |-> << >>]
    ELSE LET match == RegExpExec(tokenTypes[n].regexp, input)
             text  == SubSeq(input, match.index + 1, match.last)
         IN  IF ~match.matched
             THEN TokenizeTypesSkipping(tokenTypes, n + 1, input, result)
             ELSE [input  |-> SubSeq(input, Len(text) + 1, Len(input)),
                   result |-> Append(result, Str(text)),
                   type   |-> n,
                   text   |-> text]

\* One pass of the  for ( let type of this.tokenTypes )  loop of tokenize,
\* from type n on: the first type whose regexp matches pops the length of
\* its match off the front of the input and formats the match.  The pass
\* also tells which type matched (0 for none) and the text of the match.
RECURSIVE TokenizeTypes(_, _, _, _)
TokenizeTypes(tokenTypes, n, input, result) ==
    IF n > Len(tokenTypes)
    THEN [input |-> input, result |-> result, type |-> 0, text |-> << >>]
    ELSE LET type  == tokenTypes[n]
             match == RegExpExec(type.regexp, input)
             text  == SubSeq(input, match.index + 1, match.last)
             rest  == SubSeq(input, Len(text) + 1, Len(input))
             next  == ApplyFormatter(type.formatter.f, text)
         IN  IF ~match.matched
             THEN TokenizeTypes(tokenTypes, n + 1, input, result)
             ELSE [input  |-> rest,
                   result |-> IF type.formatter.t = "function"
                              THEN IF Truthy(next) THEN Append(result, next)
                                   ELSE result
                              ELSE Append(result,
                                          Str(ExpandTemplate(type.formatter.f,
                                                             << >>, match, input))),
                   type   |-> n,
                   text   |-> text]

\* A test for progress that never returns null.
NoProgressNever(input, original) == Len(input) > original

\* if ( input.length == original ) return null
NoProgress(input, original) == Len(input) = original

\* tokenize: null is [null |-> TRUE], an array of tokens [null |-> FALSE].
RECURSIVE TokenizeLoop(_, _, _)
TokenizeLoop(tokenTypes, input, result) ==
    IF Len(input) = 0 THEN [null |-> FALSE, tokens |-> result]
    ELSE LET pass == TokenizeTypes(tokenTypes, 1, input, result)
         IN  IF NoProgress(pass.input, Len(input))
             THEN [null |-> TRUE, tokens |-> << >>]
             ELSE TokenizeLoop(tokenTypes, pass.input, pass.result)

tokenize(tokenTypes, input) == TokenizeLoop(tokenTypes, input, << >>)

(***************************************************************************)
(* Grammar: constructor, setOption, addRule.                               *)
(*                                                                         *)
(* Options.  expressionBuilder is "null" or the name of a function:        *)
(*   "identity"  x => x                                                    *)
(*   "rejectB"   x => the token b, or an array with the element b,         *)
(*               ? undefined : x                                           *)
(* comparator is the name of a function:                                   *)
(*   "sameJSON"     the default                                            *)
(*   "no"           () => false, which returns duplicates                  *)
(*   "sameLength"   ( a, b ) => a.length == b.length                       *)
(*   "shorter"      ( a, b ) => a.length < b.length, not symmetric         *)
(* tokenizer is null ([set |-> FALSE]) or a Tokenizer.                     *)
(***************************************************************************)
NoTokenizer == [set |-> FALSE, tokenTypes |-> << >>]
Tokenizer(tokenTypes) == [set |-> TRUE, tokenTypes |-> tokenTypes]

ConstructorDefaults ==
    [addCategories       |-> TRUE,
     collapseBranches    |-> FALSE,
     showDebuggingOutput |-> FALSE,
     expressionBuilder   |-> "null",
     tokenizer           |-> NoTokenizer,
     comparator          |-> "sameJSON",
     maxIterations       |-> -1]

\* Object.assign( target, source ): the target with the source's
\* properties written over it.
ObjectAssign(target, source) ==
    [n \in DOMAIN target \cup DOMAIN source |->
        IF n \in DOMAIN source THEN source[n] ELSE target[n]]

\* An argument of addRule after the category name: a RegExp, an array of
\* entries, or a string.
SeqRegExp(src) == [t |-> "regexp", s |-> src, a |-> << >>]
SeqArray(entries) == [t |-> "array", s |-> << >>, a |-> entries]
SeqString(chars) == [t |-> "string", s |-> chars, a |-> << >>]

\* new RegExp( `^${entry.source}$` )
\* An anchoring that forgets the end.
AnchoredStartOnly(src) == << "^" >> \o src

Anchored(src) == << "^" >> \o src \o << "$" >>

\* What addRule stores for one of its sequence arguments.
StoredSequence(sequence) ==
    LET array == IF sequence.t = "regexp" THEN << RegExp(sequence.s) >>
                 ELSE IF sequence.t = "array" THEN sequence.a
                 ELSE LET parts == Split(sequence.s)
                      IN  [n \in 1 .. Len(parts) |-> Name(parts[n])]
    IN  [n \in 1 .. Len(array) |->
            IF array[n].t = "regexp" THEN RegExp(Anchored(array[n].s))
            ELSE array[n]]

RECURSIVE addRule(_, _, _)
addRule(rls, categoryName, sequences) ==
    IF sequences = << >> THEN rls
    ELSE LET old  == IF categoryName \in DOMAIN rls THEN rls[categoryName]
                     ELSE << >>
             new  == Append(old, StoredSequence(Head(sequences)))
             next == [c \in DOMAIN rls \cup {categoryName} |->
                         IF c = categoryName THEN new ELSE rls[c]]
         IN  addRule(next, categoryName, Tail(sequences))

(***************************************************************************)
(* parse.  The state of one call is a record                               *)
(*   input              the token array ( a string is read by character )  *)
(*   stateGrid          stateGrid[i + 1] is the state set of position i    *)
(*   i, j               the state set and the entry being processed        *)
(*   numIterationsDone                                                     *)
(*   results            the array being returned                           *)
(*   pc                 "loop": in the main loop, "results": collecting    *)
(*                      the results, "returned", "threw"                   *)
(*   error              the message of the error thrown                    *)
(* options is the object this.defaults itself: Object.assign returns its   *)
(* target, so the call reads its options from the grammar's defaults.      *)
(***************************************************************************)
ErrNullInput == "TypeError: Cannot read properties of null (reading 'length')"
ErrUnknown == "Unknown non-terminal in grammar rule"
ErrMaxIterations == "Maximum number of iterations reached."
ErrIndexOf == "TypeError: args.indexOf"

\* An input argument of parse: a string or an array of tokens.
InputString(chars) == [t |-> "string", s |-> chars, a |-> << >>]
InputArray(tokens) == [t |-> "array", s |-> << >>, a |-> tokens]

\* options = Object.assign( this.defaults, options )
MergedOptions(defaults, options) == ObjectAssign(defaults, options)

\* A string without a tokenizer taken for one token.
TokenizedInputWhole(options, input) ==
    IF options.tokenizer.set /\ input.t = "string"
    THEN tokenize(options.tokenizer.tokenTypes, input.s)
    ELSE IF input.t = "string"
    THEN [null |-> FALSE, tokens |-> << Str(input.s) >>]
    ELSE [null |-> FALSE, tokens |-> input.a]

\* The input after the tokenizer call.  Without a tokenizer a string stays
\* a string, whose input[i] is its character i and whose length is its
\* number of characters.
TokenizedInput(options, input) ==
    IF options.tokenizer.set /\ input.t = "string"
    THEN tokenize(options.tokenizer.tokenTypes, input.s)
    ELSE IF input.t = "string"
    THEN [null |-> FALSE, tokens |-> [n \in 1 .. Len(input.s) |-> Str(<< input.s[n] >>)]]
    ELSE [null |-> FALSE, tokens |-> input.a]

TopState(START) ==
    [lhs |-> << >>, rhs |-> << Name(START) >>, pos |-> 0, ori |-> 0, got |-> << >>]

\* The call up to the main loop: the tokenizer, the grid and its seed.
BeginParse(START, options, input) ==
    LET tok == TokenizedInput(options, input)
    IN  IF tok.null
        THEN [input |-> << >>, stateGrid |-> << >>, i |-> 0, j |-> 0,
              numIterationsDone |-> 0, results |-> << >>,
              pc |-> "threw", error |-> ErrNullInput]
        ELSE [input |-> tok.tokens,
              stateGrid |-> [n \in 1 .. Len(tok.tokens) + 1 |->
                                IF n = 1 THEN << TopState(START) >> ELSE << >>],
              i |-> 0, j |-> 0, numIterationsDone |-> 0, results |-> << >>,
              pc |-> "loop", error |-> ""]

CurrentState(st) == st.stateGrid[st.i + 1][st.j + 1]

\* numIterationsDone++ > options.maxIterations && options.maxIterations > 0,
\* with n the value of the counter before the increment.
\* A limit test that never holds.
LimitReachedNever(n, maxIterations) == n > maxIterations /\ maxIterations > 0 /\ n < 0

LimitReached(n, maxIterations) == n > maxIterations /\ maxIterations > 0

\* A completer that never collapses.
CompletedSubtreeWhole(options, state) ==
    LET got1 == IF options.addCategories
                THEN << Str(state.lhs) >> \o state.got ELSE state.got
    IN  Arr(IF options.expressionBuilder # "null"
            THEN << expressionBuilderFlag >> \o got1 ELSE got1)

\* A completer that leaves the category out of a subtree marked for the
\* builder.
CompletedSubtreeUnnamed(options, state) ==
    LET got1 == IF options.addCategories /\ options.expressionBuilder = "null"
                THEN << Str(state.lhs) >> \o state.got ELSE state.got
        got2 == IF options.expressionBuilder # "null"
                THEN << expressionBuilderFlag >> \o got1 ELSE got1
    IN  IF options.collapseBranches /\ Len(got2) = 1 THEN got2[1]
        ELSE Arr(got2)

\* The subtree the completer appends for the completed state.
CompletedSubtree(options, state) ==
    LET got1 == IF options.addCategories
                THEN << Str(state.lhs) >> \o state.got ELSE state.got
        got2 == IF options.expressionBuilder # "null"
                THEN << expressionBuilderFlag >> \o got1 ELSE got1
    IN  IF options.collapseBranches /\ Len(got2) = 1 THEN got2[1]
        ELSE Arr(got2)

\* A completer that advances the waiting states and pushes nothing onto
\* what they have got.
RECURSIVE CompleterLoopNoGot(_, _, _, _, _)
CompleterLoopNoGot(options, state, set, m, acc) ==
    IF m > Len(set) \/ acc.threw THEN acc
    ELSE IF LooseEquals(getNext(set[m]), state.lhs)
    THEN CompleterLoopNoGot(options, state, set, m + 1,
             [added |-> Append(acc.added, [copyState(set[m]) EXCEPT !.pos = @ + 1]),
              n     |-> acc.n + 1,
              threw |-> LimitReached(acc.n, options.maxIterations)])
    ELSE CompleterLoopNoGot(options, state, set, m + 1, acc)

\* The forEach of the completer over the entries m, m + 1, ... that the
\* origin's state set had when the forEach began: acc.added are the states
\* pushed so far, acc.n the counter, acc.threw whether the limit was hit.
RECURSIVE CompleterLoop(_, _, _, _, _)
CompleterLoop(options, state, set, m, acc) ==
    IF m > Len(set) \/ acc.threw THEN acc
    ELSE IF LooseEquals(getNext(set[m]), state.lhs)
    THEN LET copy == copyState(set[m])
             s    == [copy EXCEPT !.pos = @ + 1,
                                  !.got = Append(@, CompletedSubtree(options, state))]
         IN  CompleterLoop(options, state, set, m + 1,
                 [added |-> Append(acc.added, s),
                  n     |-> acc.n + 1,
                  threw |-> LimitReached(acc.n, options.maxIterations)])
    ELSE CompleterLoop(options, state, set, m + 1, acc)

\* A completer that looks in the current state set, not in the origin's.
CompleterStepHere(options, st) ==
    LET state == CurrentState(st)
        acc   == CompleterLoop(options, state, st.stateGrid[st.i + 1], 1,
                     [added |-> << >>, n |-> st.numIterationsDone, threw |-> FALSE])
        grid  == [st.stateGrid EXCEPT ![st.i + 1] = @ \o acc.added]
    IN  IF acc.threw
        THEN [st EXCEPT !.stateGrid = grid, !.numIterationsDone = acc.n,
                        !.pc = "threw", !.error = ErrMaxIterations]
        ELSE [st EXCEPT !.stateGrid = grid, !.numIterationsDone = acc.n,
                        !.j = @ + 1]

CompleterStep(options, st) ==
    LET state == CurrentState(st)
        acc   == CompleterLoop(options, state, st.stateGrid[state.ori + 1], 1,
                     [added |-> << >>, n |-> st.numIterationsDone, threw |-> FALSE])
        grid  == [st.stateGrid EXCEPT ![st.i + 1] = @ \o acc.added]
    IN  IF acc.threw
        THEN [st EXCEPT !.stateGrid = grid, !.numIterationsDone = acc.n,
                        !.pc = "threw", !.error = ErrMaxIterations]
        ELSE [st EXCEPT !.stateGrid = grid, !.numIterationsDone = acc.n,
                        !.j = @ + 1]

\* if ( i >= input.length )
\* An end of input that comes one token early.
EndOfInputEarly(i, input) == i >= Len(input) - 1

\* i >= input.length
EndOfInput(i, input) == i >= Len(input)

\* An end of input that is taken for an error.
SkipStepThrows(st) == [st EXCEPT !.pc = "threw", !.error = ErrUnknown]

SkipStep(st) == [st EXCEPT !.j = @ + 1]

\* next.test( input[i] ): the token is converted to a string.
TokenText(token) == token.s

\* A scanner that forgets the test.
ScannerStepUnchecked(st) ==
    LET state == CurrentState(st)
        token == st.input[st.i + 1]
        copy  == [copyState(state) EXCEPT !.pos = @ + 1, !.got = Append(@, token)]
    IN  [st EXCEPT !.stateGrid[st.i + 2] = Append(@, copy), !.j = @ + 1]

\* A scanner that counts its push as an iteration.
ScannerStepCounted(st) ==
    LET state == CurrentState(st)
        next  == getNext(state)
        token == st.input[st.i + 1]
        copy  == [copyState(state) EXCEPT !.pos = @ + 1, !.got = Append(@, token)]
    IN  IF RegExpTest(next.s, TokenText(token))
        THEN [st EXCEPT !.stateGrid[st.i + 2] = Append(@, copy), !.j = @ + 1,
                        !.numIterationsDone = @ + 1]
        ELSE [st EXCEPT !.j = @ + 1]

\* A scanner that advances the state itself and pushes it, no copy made.
ScannerStepInPlace(st) ==
    LET state == CurrentState(st)
        next  == getNext(state)
        token == st.input[st.i + 1]
        moved == [state EXCEPT !.pos = @ + 1, !.got = Append(@, token)]
    IN  IF RegExpTest(next.s, TokenText(token))
        THEN [st EXCEPT !.stateGrid[st.i + 1][st.j + 1] = moved,
                        !.stateGrid[st.i + 2] = Append(@, moved), !.j = @ + 1]
        ELSE [st EXCEPT !.j = @ + 1]

ScannerStep(st) ==
    LET state == CurrentState(st)
        next  == getNext(state)
        token == st.input[st.i + 1]
        copy  == [copyState(state) EXCEPT !.pos = @ + 1, !.got = Append(@, token)]
    IN  IF RegExpTest(next.s, TokenText(token))
        THEN [st EXCEPT !.stateGrid[st.i + 2] = Append(@, copy), !.j = @ + 1]
        ELSE [st EXCEPT !.j = @ + 1]

\* !this.rules.hasOwnProperty( next )
UnknownNonTerminal(rules, next) == next.s \notin DOMAIN rules

UnknownStep(st) == [st EXCEPT !.pc = "threw", !.error = ErrUnknown]

\* A predictor that pushes a state whether or not the state set has it.
RECURSIVE PredictorLoopAll(_, _, _, _, _)
PredictorLoopAll(next, rhss, m, i, stateSet) ==
    IF m > Len(rhss) THEN stateSet
    ELSE PredictorLoopAll(next, rhss, m + 1, i,
             Append(stateSet, [lhs |-> next, rhs |-> rhss[m], pos |-> 0,
                               ori |-> i, got |-> << >>]))

\* A predictor whose states all begin at the start of the input.
RECURSIVE PredictorLoopFromStart(_, _, _, _, _)
PredictorLoopFromStart(next, rhss, m, i, stateSet) ==
    IF m > Len(rhss) THEN stateSet
    ELSE LET rhs   == rhss[m]
             found == \E n \in 1 .. Len(stateSet) :
                         /\ stateSet[n].lhs = next
                         /\ equalArrays(stateSet[n].rhs, rhs)
                         /\ stateSet[n].pos = 0
         IN  PredictorLoopFromStart(next, rhss, m + 1, i,
                 IF found THEN stateSet
                 ELSE Append(stateSet, [lhs |-> next, rhs |-> rhs, pos |-> 0,
                                        ori |-> 0, got |-> << >>]))

\* The forEach of the predictor over the right-hand sides m, m + 1, ...
RECURSIVE PredictorLoop(_, _, _, _, _)
PredictorLoop(next, rhss, m, i, stateSet) ==
    IF m > Len(rhss) THEN stateSet
    ELSE LET rhs   == rhss[m]
             found == \E n \in 1 .. Len(stateSet) :
                         /\ stateSet[n].lhs = next
                         /\ equalArrays(stateSet[n].rhs, rhs)
                         /\ stateSet[n].pos = 0
         IN  PredictorLoop(next, rhss, m + 1, i,
                 IF found THEN stateSet
                 ELSE Append(stateSet, [lhs |-> next, rhs |-> rhs, pos |-> 0,
                                        ori |-> i, got |-> << >>]))

PredictorStep(rules, options, st) ==
    LET next == getNext(CurrentState(st)).s
        set  == PredictorLoop(next, rules[next], 1, st.i, st.stateGrid[st.i + 1])
        base == [st EXCEPT !.stateGrid[st.i + 1] = set, !.j = @ + 1,
                           !.numIterationsDone = @ + 1]
    IN  IF LimitReached(st.numIterationsDone, options.maxIterations)
        THEN [base EXCEPT !.pc = "threw", !.error = ErrMaxIterations]
        ELSE base

\* The end of the while loop over one state set: stateGrid.forEach goes on
\* to the next state set, or the main loop is over.
NextSetStep(st) ==
    IF st.i + 1 < Len(st.stateGrid)
    THEN [st EXCEPT !.i = @ + 1, !.j = 0]
    ELSE [st EXCEPT !.pc = "results", !.j = 0]

(***************************************************************************)
(* The results: the expression builder and the comparator.                 *)
(***************************************************************************)
\* obj[0] == expressionBuilderFlag: the object itself, or a string equal
\* to what the object converts to.
IsFlag(v) == v.k = "flag" \/ (v.k = "str" /\ v.s = ObjectObject)

\* x[ x.length - 1 ] === 'b'
LastIsB(x) ==
    IF x.k = "arr" THEN x.c # << >> /\ x.c[Len(x.c)] = Str(<< "b" >>)
    ELSE x.k = "str" /\ x.s # << >> /\ x.s[Len(x.s)] = "b"

\* options.expressionBuilder( args )
\* The builders: x => x, x => x[ x.length - 1 ] === 'b' ? undefined : x,
\* and x => x[ x.length - 1 ] === 'b' ? null : x.
ApplyBuilder(f, args) ==
    IF f = "rejectB" /\ LastIsB(args) THEN Undefined
    ELSE IF f = "nullB" /\ LastIsB(args) THEN Null
    ELSE args

\* const recur = obj => ...  A Thrown value stands for the TypeError of
\* args.indexOf when args is not an array or a string.
RECURSIVE recur(_, _)
recur(options, obj) ==
    IF obj.k # "arr" \/ obj.c = << >> \/ ~IsFlag(obj.c[1]) THEN obj
    ELSE LET mapped == [n \in 1 .. Len(obj.c) - 1 |-> recur(options, obj.c[n + 1])]
             args   == IF Len(mapped) = 1 /\ options.collapseBranches
                       THEN mapped[1] ELSE Arr(mapped)
         IN  IF \E n \in 1 .. Len(mapped) : mapped[n].k = "throw"
                 THEN Thrown(ErrIndexOf)
             ELSE IF args.k \notin {"arr", "str"} THEN Thrown(ErrIndexOf)
             ELSE IF args.k = "arr" /\ (\E n \in 1 .. Len(args.c) : args.c[n].k = "undef")
                 THEN Undefined
             ELSE IF args.k = "str" /\ Contains(args.s, UndefinedText)
                 THEN Undefined
             ELSE ApplyBuilder(options.expressionBuilder, args)

\* The calls of options.expressionBuilder that recur( obj ) makes, in the
\* order it makes them, each with its argument and the value returned:
\* map visits the children from left to right before the builder is
\* called for obj, a TypeError ends the call at once, and an undefined
\* child leaves out the call for obj.
RECURSIVE recurCalls(_, _)
RECURSIVE recurCallsOfChildren(_, _, _)
recurCalls(options, obj) ==
    IF obj.k # "arr" \/ obj.c = << >> \/ ~IsFlag(obj.c[1]) THEN << >>
    ELSE LET mapped == [n \in 1 .. Len(obj.c) - 1 |-> recur(options, obj.c[n + 1])]
             args   == IF Len(mapped) = 1 /\ options.collapseBranches
                       THEN mapped[1] ELSE Arr(mapped)
             built  == recur(options, obj)
             called == /\ \A n \in 1 .. Len(mapped) : mapped[n].k # "throw"
                       /\ args.k \in {"arr", "str"}
                       /\ args.k = "arr" =>
                              \A n \in 1 .. Len(args.c) : args.c[n].k # "undef"
                       /\ args.k = "str" => ~Contains(args.s, UndefinedText)
         IN  recurCallsOfChildren(options, obj.c, 2)
                 \o (IF called THEN << [args |-> args, returned |-> built] >>
                     ELSE << >>)
recurCallsOfChildren(options, elems, n) ==
    IF n > Len(elems) THEN << >>
    ELSE recurCalls(options, elems[n])
             \o (IF recur(options, elems[n]).k = "throw" THEN << >>
                 ELSE recurCallsOfChildren(options, elems, n + 1))

\* x instanceof Object
IsObject(v) == v.k \in {"arr", "flag", "obj"}

\* Object.keys( x ) of an object that is no array: the keys in the order
\* the properties were set.
ObjectKeys(x) == [n \in 1 .. Len(x.c) |-> x.c[n].s]

\* x[key]
PropertyOf(x, key) ==
    IF \E n \in 1 .. Len(x.c) : x.c[n].s = key
    THEN x.c[CHOOSE n \in 1 .. Len(x.c) : x.c[n].s = key].c[1]
    ELSE Undefined

\* The code unit of a character of a key.
CodeUnit(ch) ==
    CASE ch = "a" -> 97 [] ch = "b" -> 98 [] ch = "c" -> 99 [] OTHER -> 0

\* The order of sort() without a compare function: by code units.
RECURSIVE KeyBefore(_, _)
KeyBefore(key1, key2) ==
    IF key1 = << >> THEN key2 # << >>
    ELSE IF key2 = << >> THEN FALSE
    ELSE IF Head(key1) = Head(key2) THEN KeyBefore(Tail(key1), Tail(key2))
    ELSE CodeUnit(Head(key1)) < CodeUnit(Head(key2))

\* keys.sort()
RECURSIVE Sort(_)
Sort(keys) ==
    IF keys = << >> THEN << >>
    ELSE LET least == CHOOSE n \in 1 .. Len(keys) :
                          \A m \in 1 .. Len(keys) :
                              m = n \/ KeyBefore(keys[n], keys[m])
                                    \/ (keys[m] = keys[n] /\ n < m)
         IN  << keys[least] >>
                 \o Sort([m \in 1 .. Len(keys) - 1 |->
                             IF m < least THEN keys[m] ELSE keys[m + 1]])

\* The comparison with the keys left in the order they were set.
RECURSIVE sameJSONUnsorted(_, _)
sameJSONUnsorted(x, y) ==
    IF IsObject(x) # IsObject(y) THEN FALSE
    ELSE IF (x.k = "arr") # (y.k = "arr") THEN FALSE
    ELSE IF ~IsObject(x) THEN x = y
    ELSE IF x.k = "arr"
        THEN /\ Len(x.c) = Len(y.c)
             /\ \A n \in 1 .. Len(x.c) : sameJSONUnsorted(x.c[n], y.c[n])
    ELSE /\ ObjectKeys(x) = ObjectKeys(y)
         /\ \A n \in 1 .. Len(x.c) :
               sameJSONUnsorted(PropertyOf(x, x.c[n].s), PropertyOf(y, x.c[n].s))

\* For two arrays the sorted keys are the indices, equal when the lengths
\* are, and x[key] is the entry; for two other objects the keys are the
\* property names.
RECURSIVE sameJSON(_, _)
sameJSON(x, y) ==
    IF IsObject(x) # IsObject(y) THEN FALSE
    ELSE IF (x.k = "arr") # (y.k = "arr") THEN FALSE
    ELSE IF ~IsObject(x) THEN x = y
    ELSE IF x.k = "arr"
        THEN /\ Len(x.c) = Len(y.c)
             /\ \A n \in 1 .. Len(x.c) : sameJSON(x.c[n], y.c[n])
    ELSE /\ Sort(ObjectKeys(x)) = Sort(ObjectKeys(y))
         /\ \A n \in 1 .. Len(x.c) :
               sameJSON(PropertyOf(x, x.c[n].s), PropertyOf(y, x.c[n].s))

\* v.length, -1 for undefined
LengthOf(v) ==
    IF v.k = "arr" THEN Len(v.c) ELSE IF v.k = "str" THEN Len(v.s) ELSE -1

\* options.comparator( old, result )
Compare(f, old, result) ==
    IF f = "sameJSON" THEN sameJSON(old, result)
    ELSE IF f = "sameLength" THEN LengthOf(old) = LengthOf(result)
    ELSE IF f = "shorter"
    THEN LengthOf(old) >= 0 /\ LengthOf(result) >= 0
         /\ LengthOf(old) < LengthOf(result)
    ELSE FALSE

\* A results loop that takes every completed state for a result.
IsResultStateAny(state) == getNext(state).t = "null"

\* stateSet.lhs == '' && getNext( stateSet ) == null
IsResultState(state) == state.lhs = << >> /\ getNext(state).t = "null"

\* A deduplication that lets everything through.
SeenNever(options, found, result) == FALSE

\* found.some( old => options.comparator( old, result ) )
Seen(options, found, result) ==
    \E n \in 1 .. Len(found) : Compare(options.comparator, found[n], result)

\* result = stateSet.got[0], through recur when there is a builder.
RootOf(options, state) ==
    LET first == IF state.got = << >> THEN Undefined ELSE state.got[1]
    IN  IF options.expressionBuilder # "null" THEN recur(options, first) ELSE first

\* The calls of the builder in the callback of the results loop for the
\* entry j of the final state set, marked with j.
BuilderCallsOf(options, st) ==
    LET state == st.stateGrid[Len(st.stateGrid)][st.j + 1]
        calls == IF IsResultState(state) /\ options.expressionBuilder # "null"
                    /\ state.got # << >>
                 THEN recurCalls(options, state.got[1]) ELSE << >>
    IN  [n \in 1 .. Len(calls) |->
            [entry |-> st.j, args |-> calls[n].args, returned |-> calls[n].returned]]

\* A results loop that puts a new result in front of the others.
ResultStepUnshift(options, st) ==
    LET state  == st.stateGrid[Len(st.stateGrid)][st.j + 1]
        result == RootOf(options, state)
        seen   == Seen(options, st.results, result)
    IN  IF ~IsResultState(state) THEN [st EXCEPT !.j = @ + 1]
        ELSE IF result.k = "throw"
            THEN [st EXCEPT !.pc = "threw", !.error = result.s[1]]
        ELSE IF options.expressionBuilder # "null" /\ ~Truthy(result)
            THEN [st EXCEPT !.j = @ + 1]
        ELSE IF seen THEN [st EXCEPT !.j = @ + 1]
        ELSE [st EXCEPT !.results = << result >> \o @, !.j = @ + 1]

\* The callback of the forEach over the final state set, for its entry j.
ResultStep(options, st) ==
    LET state  == st.stateGrid[Len(st.stateGrid)][st.j + 1]
        result == RootOf(options, state)
        seen   == Seen(options, st.results, result)
    IN  IF ~IsResultState(state) THEN [st EXCEPT !.j = @ + 1]
        ELSE IF result.k = "throw"
            THEN [st EXCEPT !.pc = "threw", !.error = result.s[1]]
        ELSE IF options.expressionBuilder # "null" /\ ~Truthy(result)
            THEN [st EXCEPT !.j = @ + 1]
        ELSE IF seen THEN [st EXCEPT !.j = @ + 1]
        ELSE [st EXCEPT !.results = Append(@, result), !.j = @ + 1]

ReturnStep(st) == [st EXCEPT !.pc = "returned"]

(***************************************************************************)
(* The dispatch of the main loop on the state being processed, one step    *)
(* of a call, and a call run to its end.                                   *)
(***************************************************************************)
InLoop(st) == st.pc = "loop" /\ st.j < Len(st.stateGrid[st.i + 1])
\* A loop that leaves a state set before its last entry.
AtSetEndEarly(st) ==
    st.pc = "loop" /\ st.j >= Len(st.stateGrid[st.i + 1]) - 1 /\ st.j > 0
AtSetEnd(st) == st.pc = "loop" /\ st.j >= Len(st.stateGrid[st.i + 1])
InResults(st) == st.pc = "results" /\ st.j < Len(st.stateGrid[Len(st.stateGrid)])
AtResultsEnd(st) == st.pc = "results" /\ st.j >= Len(st.stateGrid[Len(st.stateGrid)])

IsCompleter(st) == InLoop(st) /\ getNext(CurrentState(st)).t = "null"
IsSkip(st) ==
    /\ InLoop(st)
    /\ getNext(CurrentState(st)).t # "null"
    /\ EndOfInput(st.i, st.input)
IsScanner(st) ==
    /\ InLoop(st)
    /\ getNext(CurrentState(st)).t = "regexp"
    /\ ~EndOfInput(st.i, st.input)
IsUnknown(rules, st) ==
    /\ InLoop(st)
    /\ getNext(CurrentState(st)).t = "string"
    /\ ~EndOfInput(st.i, st.input)
    /\ UnknownNonTerminal(rules, getNext(CurrentState(st)))
IsPredictor(rules, st) ==
    /\ InLoop(st)
    /\ getNext(CurrentState(st)).t = "string"
    /\ ~EndOfInput(st.i, st.input)
    /\ ~UnknownNonTerminal(rules, getNext(CurrentState(st)))

Step(rules, options, st) ==
    IF IsCompleter(st) THEN CompleterStep(options, st)
    ELSE IF IsSkip(st) THEN SkipStep(st)
    ELSE IF IsScanner(st) THEN ScannerStep(st)
    ELSE IF IsUnknown(rules, st) THEN UnknownStep(st)
    ELSE IF IsPredictor(rules, st) THEN PredictorStep(rules, options, st)
    ELSE IF AtSetEnd(st) THEN NextSetStep(st)
    ELSE IF InResults(st) THEN ResultStep(options, st)
    ELSE IF AtResultsEnd(st) THEN ReturnStep(st)
    ELSE st

RECURSIVE RunFrom(_, _, _)
RunFrom(rules, options, st) ==
    IF st.pc \in {"returned", "threw"} THEN st
    ELSE RunFrom(rules, options, Step(rules, options, st))

\* What parse( input ) does on a grammar with these rules and options.
ParseOutcome(START, rules, options, input) ==
    RunFrom(rules, options, BeginParse(START, options, input))

(***************************************************************************)
(* The clients of the model: the calls that build a grammar (its script),  *)
(* and the inputs and options of parse.                                    *)
(***************************************************************************)
MaxInputLen == 3

a == << "a" >>
b == << "b" >>
A == << "A" >>
B == << "B" >>
M == << "M" >>
S == << "S" >>
X == << "X" >>
Y == << "Y" >>
C == << "C" >>
P == << "P" >>
T == << "T" >>

CallAddRule(categoryName, sequences) ==
    [op |-> "addRule", categoryName |-> categoryName, sequences |-> sequences]
CallSetOption(name, value) == [op |-> "setOption", name |-> name, value |-> value]

\* S -> S S | /a/ : ambiguous, aaa has two trees.
GrammarAmbiguous ==
    [START |-> S,
     calls |-> << CallAddRule(S, << SeqString(<< "S", " ", "S" >>), SeqRegExp(a) >>) >>]
\* S -> S /b/ M | M ; M -> /a/ : left recursive.
GrammarLeft ==
    [START |-> S,
     calls |-> << CallAddRule(S, << SeqArray(<< Name(S), RegExp(b), Name(M) >>),
                                    SeqString(M) >>),
                  CallAddRule(M, << SeqRegExp(a) >>) >>]
\* S -> B A B ; A -> /a/ ; B -> | /b/ : B has an empty right-hand side.
GrammarEmpty ==
    [START |-> S,
     calls |-> << CallAddRule(S, << SeqString(<< "B", " ", "A", " ", "B" >>) >>),
                  CallAddRule(A, << SeqRegExp(a) >>),
                  CallAddRule(B, << SeqArray(<< >>), SeqArray(<< RegExp(b) >>) >>) >>]
\* S -> X | Y ; X -> /a|b/ ; Y -> /a/ : two trees of the same shape.
GrammarTwo ==
    [START |-> S,
     calls |-> << CallAddRule(S, << SeqString(X), SeqString(Y) >>),
                  CallAddRule(X, << SeqRegExp(<< "a", "|", "b" >>) >>),
                  CallAddRule(Y, << SeqArray(<< RegExp(a) >>) >>) >>]
\* A -> B, and no rule for B.
GrammarUndefined ==
    [START |-> A, calls |-> << CallAddRule(A, << SeqString(B) >>) >>]

\* P -> S ; S -> S /\+/ M | M ; M -> M /\*/ T | T ; T -> /-?[0-9]+/ :
\* sums of products of integers.
GrammarArithmetic ==
    [START |-> P,
     calls |-> << CallAddRule(P, << SeqString(S) >>),
                  CallAddRule(S, << SeqArray(<< Name(S), RegExp(<< "\\", "+" >>),
                                                Name(M) >>),
                                    SeqString(M) >>),
                  CallAddRule(M, << SeqArray(<< Name(M), RegExp(<< "\\", "*" >>),
                                                Name(T) >>),
                                    SeqString(T) >>),
                  CallAddRule(T, << SeqRegExp(<< "-", "?", "[", "0", "-", "9", "]",
                                                 "+" >>) >>) >>]

\* S -> C /a/ | B C /a/ ; B -> ; C -> : two nonterminals with an empty
\* right-hand side, one after the other.
GrammarNullable ==
    [START |-> S,
     calls |-> << CallAddRule(S, << SeqArray(<< Name(C), RegExp(a) >>),
                                    SeqArray(<< Name(B), Name(C), RegExp(a) >>) >>),
                  CallAddRule(B, << SeqArray(<< >>) >>),
                  CallAddRule(C, << SeqArray(<< >>) >>) >>]

\* S -> M | M | /a/ | /a/ | /b/ ; M -> /b/ : right-hand sides of S that
\* come twice, and a token b right under the root or one level below.
GrammarRepeated ==
    [START |-> S,
     calls |-> << CallAddRule(S, << SeqString(M), SeqString(M),
                                    SeqRegExp(a), SeqRegExp(a), SeqRegExp(b) >>),
                  CallAddRule(M, << SeqRegExp(b) >>) >>]

Grammars ==
    {GrammarAmbiguous, GrammarLeft, GrammarEmpty, GrammarTwo, GrammarUndefined,
     GrammarArithmetic, GrammarNullable, GrammarRepeated}

\* A tokenizer for the letters a and b that drops b.
TokenizerAB ==
    Tokenizer(addType(addType(<< >>, a, Formatter("identity")), b, Formatter("drop")))

OptionCalls ==
    {<< >>,
     << CallSetOption("expressionBuilder", "identity") >>,
     << CallSetOption("expressionBuilder", "rejectB") >>,
     << CallSetOption("expressionBuilder", "nullB") >>,
     << CallSetOption("maxIterations", 0) >>,
     << CallSetOption("maxIterations", 1) >>,
     << CallSetOption("maxIterations", 2) >>,
     << CallSetOption("comparator", "no") >>,
     << CallSetOption("comparator", "sameLength") >>,
     << CallSetOption("comparator", "shorter") >>,
     << CallSetOption("tokenizer", TokenizerAB) >>}

Scripts ==
    {[START |-> g.START, calls |-> g.calls \o o] : g \in Grammars, o \in OptionCalls}

\* The second argument of parse.
NoOptions == [n \in {} |-> TRUE]
Overrides ==
    {NoOptions,
     [collapseBranches |-> TRUE],
     [addCategories |-> FALSE],
     [addCategories |-> FALSE, collapseBranches |-> TRUE]}

RECURSIVE SeqsUpTo(_, _)
SeqsUpTo(set, n) ==
    IF n = 0 THEN {<< >>}
    ELSE LET shorter == SeqsUpTo(set, n - 1)
         IN  shorter \cup {Append(q, e) : q \in shorter, e \in set}

\* The tokens 15 + -2 * 9 and 7 * 50 * 33 * 1.
Sum ==
    << Str(<< "1", "5" >>), Str(<< "+" >>), Str(<< "-", "2" >>), Str(<< "*" >>),
       Str(<< "9" >>) >>
Product ==
    << Str(<< "7" >>), Str(<< "*" >>), Str(<< "5", "0" >>), Str(<< "*" >>),
       Str(<< "3", "3" >>), Str(<< "*" >>), Str(<< "1" >>) >>

Inputs ==
    {InputArray(q) : q \in SeqsUpTo({Str(a), Str(b)}, MaxInputLen)}
        \cup {InputArray(<< Str(<< "a", "b" >>) >>)}
        \cup {InputString(a), InputString(<< "a", "b" >>), InputString(<< "a", "c" >>)}
        \cup {InputArray(Sum), InputArray(Product)}

(***************************************************************************)
(* The state: the grammar object (START, rules, defaults), the script of   *)
(* the calls that build it and how many of them are done, and the state    *)
(* of the parse call (see above), with the arguments it was called with.   *)
(***************************************************************************)
VARIABLES START, rules, defaults, script, done, args,
          input, stateGrid, i, j, numIterationsDone, results, pc, error,
          tokenTypes, remaining, result, passes, builderCalls, compared,
          dispatched

vars == << START, rules, defaults, script, done, args,
           input, stateGrid, i, j, numIterationsDone, results, pc, error,
           tokenTypes, remaining, result, passes, builderCalls, compared,
           dispatched >>

grammarVars == << START, rules, script >>

\* A Tokenizer object T and a call T.tokenize( string ): this.tokenTypes,
\* the local variables input (here remaining) and result, and the passes
\* of the type loop that matched, each with the type that matched, the
\* text of the match and the input it was matched against.
tokenizerVars == << tokenTypes, remaining, result, passes >>

\* A call sameJSON( x, y ): its arguments, whether it has returned and what.
comparatorVars == << compared >>

NotCompared == [x |-> Null, y |-> Null, called |-> FALSE, returned |-> FALSE]

\* The passes of the while loop of the running call, in the order they
\* were made: the state set i, the entry j, and the branch that took it.
Dispatch(to) == [i |-> i, j |-> j, to |-> to]

\* The parse call's state as a record, and the record written back.
Cur ==
    [input |-> input, stateGrid |-> stateGrid, i |-> i, j |-> j,
     numIterationsDone |-> numIterationsDone, results |-> results,
     pc |-> pc, error |-> error]

Install(st) ==
    /\ input' = st.input
    /\ stateGrid' = st.stateGrid
    /\ i' = st.i
    /\ j' = st.j
    /\ numIterationsDone' = st.numIterationsDone
    /\ results' = st.results
    /\ pc' = st.pc
    /\ error' = st.error

\* new Grammar( START )
Init ==
    /\ \E sc \in Scripts : START = sc.START /\ script = sc.calls
    /\ rules = << >>
    /\ defaults = ConstructorDefaults
    /\ done = 0
    /\ args = [input |-> InputArray(<< >>), options |-> NoOptions]
    /\ input = << >>
    /\ stateGrid = << >>
    /\ i = 0
    /\ j = 0
    /\ numIterationsDone = 0
    /\ results = << >>
    /\ pc = "idle"
    /\ error = ""
    /\ tokenTypes = << >>
    /\ remaining = << >>
    /\ result = << >>
    /\ passes = << >>
    /\ builderCalls = << >>
    /\ compared = NotCompared
    /\ dispatched = << >>

AddRule ==
    /\ pc = "idle"
    /\ done < Len(script)
    /\ script[done + 1].op = "addRule"
    /\ rules' = addRule(rules, script[done + 1].categoryName,
                        script[done + 1].sequences)
    /\ done' = done + 1
    /\ UNCHANGED << START, defaults, script, args, input, stateGrid, i, j,
                    numIterationsDone, results, pc, error >>
    /\ UNCHANGED << tokenizerVars, builderCalls, comparatorVars >>
    /\ UNCHANGED dispatched

SetOption ==
    /\ pc = "idle"
    /\ done < Len(script)
    /\ script[done + 1].op = "setOption"
    /\ defaults' = [defaults EXCEPT ![script[done + 1].name] = script[done + 1].value]
    /\ done' = done + 1
    /\ UNCHANGED << START, rules, script, args, input, stateGrid, i, j,
                    numIterationsDone, results, pc, error >>
    /\ UNCHANGED << tokenizerVars, builderCalls, comparatorVars >>
    /\ UNCHANGED dispatched

\* parse( input, options ), up to the main loop: the first call, or a call
\* after an earlier one has returned or thrown.
ParseWith(ins, overrides) ==
    /\ pc \in {"idle", "returned", "threw"}
    /\ done = Len(script)
    /\ \E in \in ins, options \in overrides :
          /\ args' = [input |-> in, options |-> options]
          /\ defaults' = MergedOptions(defaults, options)
          /\ Install(BeginParse(START, MergedOptions(defaults, options), in))
    /\ builderCalls' = << >>
    /\ UNCHANGED << grammarVars, done, tokenizerVars, comparatorVars >>
    /\ dispatched' = << >>

Parse == ParseWith(Inputs, Overrides)

Completer ==
    /\ IsCompleter(Cur)
    /\ Install(CompleterStep(defaults, Cur))
    /\ UNCHANGED << grammarVars, defaults, done, args, tokenizerVars, builderCalls,
                    comparatorVars >>
    /\ dispatched' = Append(dispatched, Dispatch("completer"))

Skip ==
    /\ IsSkip(Cur)
    /\ Install(SkipStep(Cur))
    /\ UNCHANGED << grammarVars, defaults, done, args, tokenizerVars, builderCalls,
                    comparatorVars >>
    /\ dispatched' = Append(dispatched, Dispatch("skip"))

Scanner ==
    /\ IsScanner(Cur)
    /\ Install(ScannerStep(Cur))
    /\ UNCHANGED << grammarVars, defaults, done, args, tokenizerVars, builderCalls,
                    comparatorVars >>
    /\ dispatched' = Append(dispatched, Dispatch("scanner"))

Unknown ==
    /\ IsUnknown(rules, Cur)
    /\ Install(UnknownStep(Cur))
    /\ UNCHANGED << grammarVars, defaults, done, args, tokenizerVars, builderCalls,
                    comparatorVars >>
    /\ dispatched' = Append(dispatched, Dispatch("unknown"))

Predictor ==
    /\ IsPredictor(rules, Cur)
    /\ Install(PredictorStep(rules, defaults, Cur))
    /\ UNCHANGED << grammarVars, defaults, done, args, tokenizerVars, builderCalls,
                    comparatorVars >>
    /\ dispatched' = Append(dispatched, Dispatch("predictor"))

NextSet ==
    /\ AtSetEnd(Cur)
    /\ Install(NextSetStep(Cur))
    /\ UNCHANGED << grammarVars, defaults, done, args, tokenizerVars, builderCalls,
                    comparatorVars >>
    /\ UNCHANGED dispatched

Result ==
    /\ InResults(Cur)
    /\ Install(ResultStep(defaults, Cur))
    /\ builderCalls' = builderCalls \o BuilderCallsOf(defaults, Cur)
    /\ UNCHANGED << grammarVars, defaults, done, args, tokenizerVars, comparatorVars >>
    /\ UNCHANGED dispatched

Return ==
    /\ AtResultsEnd(Cur)
    /\ Install(ReturnStep(Cur))
    /\ UNCHANGED << grammarVars, defaults, done, args, tokenizerVars, builderCalls,
                    comparatorVars >>
    /\ UNCHANGED dispatched

Next ==
    \/ AddRule
    \/ SetOption
    \/ Parse
    \/ Completer
    \/ Skip
    \/ Scanner
    \/ Unknown
    \/ Predictor
    \/ NextSet
    \/ Result
    \/ Return

Spec == Init /\ [][Next]_vars

(***************************************************************************)
(* Grammars with cycles.  The completer pushes a copy for every waiting    *)
(* state of the origin's state set and looks for no equal state first, so  *)
(* a state set can grow without end; a completer step is taken only while  *)
(* the state set of the main loop has fewer than MaxSetLen states.         *)
(***************************************************************************)
MaxSetLen == 10

\* A -> A | /a/
GrammarCyclic ==
    [START |-> A,
     calls |-> << CallAddRule(A, << SeqString(A), SeqRegExp(a) >>) >>]
\* A -> B ; B -> A
GrammarMutual ==
    [START |-> A,
     calls |-> << CallAddRule(A, << SeqString(B) >>),
                  CallAddRule(B, << SeqString(A) >>) >>]
\* A -> B | /a/ ; B -> A
GrammarMutualToken ==
    [START |-> A,
     calls |-> << CallAddRule(A, << SeqString(B), SeqRegExp(a) >>),
                  CallAddRule(B, << SeqString(A) >>) >>]

CyclicGrammars ==
    {GrammarCyclic, GrammarMutual, GrammarMutualToken, GrammarLeft, GrammarUndefined}

\* No limit, or setOption( 'maxIterations', M ) with a small M.
CyclicOptionCalls ==
    {<< >>,
     << CallSetOption("maxIterations", 1) >>,
     << CallSetOption("maxIterations", 3) >>}

\* The arrays of at most MaxCyclicInputLen tokens a and b, and the second
\* argument of parse left out or asking for collapsed branches.
MaxCyclicInputLen == 2
CyclicInputs == {InputArray(q) : q \in SeqsUpTo({Str(a), Str(b)}, MaxCyclicInputLen)}
CyclicOverrides == {NoOptions, [collapseBranches |-> TRUE]}

ParseCyclic == ParseWith(CyclicInputs, CyclicOverrides)

InitCyclic ==
    /\ \E g \in CyclicGrammars, o \in CyclicOptionCalls :
           START = g.START /\ script = g.calls \o o
    /\ rules = << >>
    /\ defaults = ConstructorDefaults
    /\ done = 0
    /\ args = [input |-> InputArray(<< >>), options |-> NoOptions]
    /\ input = << >>
    /\ stateGrid = << >>
    /\ i = 0
    /\ j = 0
    /\ numIterationsDone = 0
    /\ results = << >>
    /\ pc = "idle"
    /\ error = ""
    /\ tokenTypes = << >>
    /\ remaining = << >>
    /\ result = << >>
    /\ passes = << >>
    /\ builderCalls = << >>
    /\ compared = NotCompared
    /\ dispatched = << >>

CompleterBounded ==
    /\ pc = "loop"
    /\ Len(stateGrid[i + 1]) < MaxSetLen
    /\ Completer

NextCyclic ==
    \/ AddRule
    \/ SetOption
    \/ ParseCyclic
    \/ CompleterBounded
    \/ Skip
    \/ Scanner
    \/ Unknown
    \/ Predictor
    \/ NextSet
    \/ Result
    \/ Return

SpecCyclic == InitCyclic /\ [][NextCyclic]_vars

\* A call of parse that has begun goes on: JavaScript runs the call to its
\* end without giving way, so a step of the running call that can be
\* taken is taken.
Running ==
    \/ CompleterBounded
    \/ Skip
    \/ Scanner
    \/ Unknown
    \/ Predictor
    \/ NextSet
    \/ Result
    \/ Return

SpecCyclicFair == SpecCyclic /\ WF_vars(Running)

(***************************************************************************)
(* A Tokenizer on its own: the calls of addType that build it (its         *)
(* script) and calls of tokenize, one pass of the type loop at a time.     *)
(* pc is "tokenize" during a call, "tokenized" when it has returned        *)
(* result and "failed" when it has returned null.                          *)
(***************************************************************************)
MaxStringLen == 3

c == << "c" >>

CallAddType(regexp, formatter) ==
    [op |-> "addType", regexp |-> regexp, formatter |-> formatter]

\* /a/, /ab/, /b/ : the second type matches a longer text than the first.
TypesOrdered ==
    << CallAddType(a, Formatter("identity")),
       CallAddType(<< "a", "b" >>, Formatter("identity")),
       CallAddType(b, Formatter("identity")) >>
\* /ab/, /a/, /c/ with () => null
TypesLongFirst ==
    << CallAddType(<< "a", "b" >>, Formatter("identity")),
       CallAddType(a, Formatter("identity")),
       CallAddType(c, Formatter("drop")) >>
\* /^a|b/ : begins with ^, so it is stored as it is.
TypesAnchored ==
    << CallAddType(<< "^", "a", "|", "b" >>, Formatter("identity")) >>
\* /a|b/ and /c/ : wrapped by addType.
TypesAlternation ==
    << CallAddType(<< "a", "|", "b" >>, Formatter("identity")),
       CallAddType(c, Formatter("identity")) >>
\* Formatters that return null, '' and false.
TypesFalsy ==
    << CallAddType(a, Formatter("drop")),
       CallAddType(b, Formatter("empty")),
       CallAddType(c, Formatter("false")) >>
\* Template formatters: /(a)(b)/ 'x%2-%1', /(%1)(a)/ '%1%2', /a/ '<%0>',
\* /b/ 'B', /c/ '%' .
TypesTemplate ==
    << CallAddType(<< "(", "a", ")", "(", "b", ")" >>,
                   Template(<< "x", "%", "2", "-", "%", "1" >>)),
       CallAddType(<< "(", "%", "1", ")", "(", "a", ")" >>,
                   Template(<< "%", "1", "%", "2" >>)),
       CallAddType(a, Template(<< "<", "%", "0", ">" >>)),
       CallAddType(b, Template(<< "B" >>)),
       CallAddType(c, Template(<< "%" >>)) >>

\* /b*/ and /a/ : the first type matches the empty text where no b is.
TypesEmptyMatch ==
    << CallAddType(<< "b", "*" >>, Formatter("identity")),
       CallAddType(a, Formatter("identity")) >>

TypeScripts ==
    {TypesOrdered, TypesLongFirst, TypesAnchored, TypesAlternation, TypesFalsy,
     TypesTemplate, TypesEmptyMatch}

Strings ==
    SeqsUpTo({"a", "b", "c"}, MaxStringLen) \cup {<< "%", "1", "a" >>}

\* T = new Tokenizer()
InitTokenizer ==
    /\ START = S
    /\ rules = << >>
    /\ defaults = ConstructorDefaults
    /\ script \in TypeScripts
    /\ done = 0
    /\ args = [input |-> InputString(<< >>), options |-> NoOptions]
    /\ input = << >>
    /\ stateGrid = << >>
    /\ i = 0
    /\ j = 0
    /\ numIterationsDone = 0
    /\ results = << >>
    /\ pc = "idle"
    /\ error = ""
    /\ tokenTypes = << >>
    /\ remaining = << >>
    /\ result = << >>
    /\ passes = << >>
    /\ builderCalls = << >>
    /\ compared = NotCompared
    /\ dispatched = << >>

parseVars ==
    << START, rules, defaults, input, stateGrid, i, j, numIterationsDone,
       results, error, builderCalls, compared, dispatched >>

AddType ==
    /\ pc = "idle"
    /\ done < Len(script)
    /\ script[done + 1].op = "addType"
    /\ tokenTypes' = addType(tokenTypes, script[done + 1].regexp,
                             script[done + 1].formatter)
    /\ done' = done + 1
    /\ UNCHANGED << parseVars, script, args, pc, remaining, result, passes >>

\* tokenize( input ), up to the while loop.
Tokenize ==
    /\ pc \in {"idle", "tokenized", "failed"}
    /\ done = Len(script)
    /\ \E string \in Strings :
          /\ args' = [input |-> InputString(string), options |-> NoOptions]
          /\ remaining' = string
    /\ result' = << >>
    /\ passes' = << >>
    /\ pc' = "tokenize"
    /\ UNCHANGED << parseVars, script, done, tokenTypes >>

\* One turn of the while loop: the pass over the types, and the return of
\* null when the pass has left the input as long as it was.
TokenizePass ==
    /\ pc = "tokenize"
    /\ Len(remaining) > 0
    /\ LET pass == TokenizeTypes(tokenTypes, 1, remaining, result)
       IN  /\ remaining' = pass.input
           /\ result' = pass.result
           /\ passes' = IF pass.type = 0 THEN passes
                        ELSE Append(passes, [type |-> pass.type, text |-> pass.text,
                                             input |-> remaining])
           /\ pc' = IF NoProgress(pass.input, Len(remaining)) THEN "failed"
                    ELSE "tokenize"
    /\ UNCHANGED << parseVars, script, done, args, tokenTypes >>

\* return result
TokenizeReturn ==
    /\ pc = "tokenize"
    /\ Len(remaining) = 0
    /\ pc' = "tokenized"
    /\ UNCHANGED << parseVars, script, done, args, tokenizerVars >>

NextTokenizer ==
    \/ AddType
    \/ Tokenize
    \/ TokenizePass
    \/ TokenizeReturn

SpecTokenizer == InitTokenizer /\ [][NextTokenizer]_vars

\* A call of tokenize runs on until it returns: its loop is synchronous
\* code.  A step of the call can be taken exactly while the call is in its
\* loop (with input left a pass shortens it or returns null, with none the
\* call returns), so weak fairness of the steps of the call reads: again
\* and again the call is out of its loop or takes a step.
Tokenizing == TokenizePass \/ TokenizeReturn

SpecTokenizerFair ==
    SpecTokenizer /\ ([]<>(pc # "tokenize") \/ []<><<Tokenizing>>_vars)

(***************************************************************************)
(* The comparator on its own: one call sameJSON( x, y ) on two JSON        *)
(* values, then calls with the arguments exchanged.                        *)
(***************************************************************************)
MaxArrayLen == 2

JSONAtoms == {Str(<< "a" >>), Null, False}
JSONKeys == {<< "a" >>, << "b" >>}

\* The object literals over the keys, in every order of writing them.
ObjectsOver(vals) ==
    {Obj(<< >>)}
        \cup {Obj(<< Prop(key, v) >>) : key \in JSONKeys, v \in vals}
        \cup UNION {{Obj(<< Prop(key1, v), Prop(key2, w) >>) :
                         key2 \in JSONKeys \ {key1}, v \in vals, w \in vals} :
                     key1 \in JSONKeys}

JSONFlat ==
    {Arr(elems) : elems \in SeqsUpTo(JSONAtoms, MaxArrayLen)}
        \cup ObjectsOver(JSONAtoms)

JSONValues ==
    JSONAtoms \cup JSONFlat
        \cup {Arr(<< v >>) : v \in JSONFlat}
        \cup {Obj(<< Prop(<< "a" >>, v) >>) : v \in JSONFlat}

InitSameJSON ==
    /\ START = S
    /\ rules = << >>
    /\ defaults = ConstructorDefaults
    /\ script = << >>
    /\ done = 0
    /\ args = [input |-> InputArray(<< >>), options |-> NoOptions]
    /\ input = << >>
    /\ stateGrid = << >>
    /\ i = 0
    /\ j = 0
    /\ numIterationsDone = 0
    /\ results = << >>
    /\ pc = "idle"
    /\ error = ""
    /\ tokenTypes = << >>
    /\ remaining = << >>
    /\ result = << >>
    /\ passes = << >>
    /\ builderCalls = << >>
    /\ \E x \in JSONValues, y \in JSONValues :
           compared = [x |-> x, y |-> y, called |-> FALSE, returned |-> FALSE]
    /\ dispatched = << >>

\* sameJSON( x, y )
CallSameJSON ==
    /\ ~compared.called
    /\ compared' = [compared EXCEPT !.called = TRUE,
                                    !.returned = sameJSON(compared.x, compared.y)]
    /\ UNCHANGED << START, rules, defaults, script, done, args, input, stateGrid,
                    i, j, numIterationsDone, results, pc, error, tokenizerVars,
                    builderCalls, dispatched >>

\* sameJSON( y, x ), the call with the arguments of the last call exchanged.
CallSameJSONExchanged ==
    /\ compared.called
    /\ compared.x # compared.y
    /\ compared' = [x |-> compared.y, y |-> compared.x, called |-> TRUE,
                    returned |-> sameJSON(compared.y, compared.x)]
    /\ UNCHANGED << START, rules, defaults, script, done, args, input, stateGrid,
                    i, j, numIterationsDone, results, pc, error, tokenizerVars,
                    builderCalls, dispatched >>

NextSameJSON ==
    \/ CallSameJSON
    \/ CallSameJSONExchanged

SpecSameJSON == InitSameJSON /\ [][NextSameJSON]_vars

(***************************************************************************)
(* Reference notions the claims are stated with.                           *)
(***************************************************************************)
Range(f) == {f[n] : n \in DOMAIN f}

Finished == pc \in {"returned", "threw"}

\* The call runs with the options of the constructor on the tree shape.
PlainTrees ==
    /\ defaults.addCategories
    /\ ~defaults.collapseBranches
    /\ defaults.expressionBuilder = "null"

\* The tokens at the leaves of a tree whose nodes begin with their category.
RECURSIVE Leaves(_)
RECURSIVE LeavesOfAll(_, _)
Leaves(t) == IF t.k = "arr" THEN LeavesOfAll(t.c, 2) ELSE << t >>
LeavesOfAll(cs, n) ==
    IF n > Len(cs) THEN << >> ELSE Leaves(cs[n]) \o LeavesOfAll(cs, n + 1)

\* t is a parse tree for the nonterminal lhs: [lhs, c1 .. ck] for a
\* production lhs -> rhs with k entries, ci a token the terminal rhs[i]
\* matches or a parse tree for the nonterminal rhs[i].
RECURSIVE IsParseTree(_, _, _)
IsParseTree(rls, t, lhs) ==
    /\ t.k = "arr"
    /\ Len(t.c) >= 1
    /\ t.c[1] = Str(lhs)
    /\ lhs \in DOMAIN rls
    /\ \E r \in 1 .. Len(rls[lhs]) :
          LET rhs == rls[lhs][r]
          IN  /\ Len(rhs) = Len(t.c) - 1
              /\ \A n \in 1 .. Len(rhs) :
                    IF rhs[n].t = "regexp"
                    THEN /\ t.c[n + 1].k = "str"
                         /\ RegExpTest(rhs[n].s, t.c[n + 1].s)
                    ELSE IsParseTree(rls, t.c[n + 1], rhs[n].s)

RECURSIVE DerivationTrees(_, _, _, _)
RECURSIVE DerivationsOf(_, _, _, _)
DerivationTrees(rls, lhs, tokens, d) ==
    IF d = 0 \/ lhs \notin DOMAIN rls THEN {}
    ELSE UNION {{Arr(<< Str(lhs) >> \o cs) :
                     cs \in DerivationsOf(rls, rls[lhs][r], tokens, d - 1)} :
                r \in 1 .. Len(rls[lhs])}
\* The sequences of children that derive tokens from the entries of rhs.
DerivationsOf(rls, rhs, tokens, d) ==
    IF rhs = << >> THEN IF tokens = << >> THEN {<< >>} ELSE {}
    ELSE UNION {
        LET front == SubSeq(tokens, 1, k)
            back  == SubSeq(tokens, k + 1, Len(tokens))
            heads == IF rhs[1].t = "regexp"
                     THEN IF k = 1 /\ front[1].k = "str"
                             /\ RegExpTest(rhs[1].s, front[1].s)
                          THEN {front[1]} ELSE {}
                     ELSE DerivationTrees(rls, rhs[1].s, front, d)
        IN  IF heads = {} THEN {}
            ELSE {<< h >> \o rest :
                     h \in heads, rest \in DerivationsOf(rls, Tail(rhs), back, d)}
        : k \in 0 .. Len(tokens)}

C2_Completeness ==
    (pc = "returned" /\ PlainTrees /\ defaults.comparator \in {"sameJSON", "no"}) =>
        \A t \in DerivationTrees(rules, START, input, MaxInputLen + 2) :
            \E n \in 1 .. Len(results) : results[n] = t

(***************************************************************************)
(* C3  Deduplication.  The candidates are the roots of the complete items  *)
(* for the start in the last state set that the builder lets through, in   *)
(* the order of the set.  The results are the candidates at a set Kept of  *)
(* positions, in order; no kept candidate is reported equal by an earlier  *)
(* kept one, and every dropped candidate is.                               *)
(***************************************************************************)
RECURSIVE CandidatesFrom(_, _, _)
CandidatesFrom(options, set, n) ==
    IF n > Len(set) THEN << >>
    ELSE LET root == RootOf(options, set[n])
             keep == /\ IsResultState(set[n])
                     /\ (options.expressionBuilder # "null" => Truthy(root))
         IN  (IF keep THEN << root >> ELSE << >>)
                 \o CandidatesFrom(options, set, n + 1)

Candidates == CandidatesFrom(defaults, stateGrid[Len(stateGrid)], 1)

RECURSIVE Pick(_, _, _)
Pick(seq, Kept, n) ==
    IF n > Len(seq) THEN << >>
    ELSE (IF n \in Kept THEN << seq[n] >> ELSE << >>) \o Pick(seq, Kept, n + 1)

\* res is cands without the candidates an earlier kept one reports equal.
DedupedOf(cands, res) ==
    \E Kept \in SUBSET (1 .. Len(cands)) :
        /\ res = Pick(cands, Kept, 1)
        /\ \A k \in 1 .. Len(cands) :
              k \in Kept <=>
                  ~\E e \in Kept :
                      e < k /\ Compare(defaults.comparator, cands[e], cands[k])

C3_Deduplicated ==
    pc = "returned" =>
        /\ \A n1, n2 \in 1 .. Len(results) :
              n1 < n2 => ~Compare(defaults.comparator, results[n1], results[n2])
        /\ DedupedOf(Candidates, results)

C3_Witness ==
    /\ pc = "returned"
    /\ defaults.comparator = "sameLength"
    /\ Len(Candidates) = 2
    /\ Candidates[1] # Candidates[2]
    /\ results = << Candidates[1] >>

(***************************************************************************)
(* C4  A tokenizer that fails.  When a tokenizer is set, the input is a    *)
(* string and tokenize returns null for it, the call returns the empty     *)
(* sequence and throws nothing.                                            *)
(***************************************************************************)
TokenizeFails ==
    /\ defaults.tokenizer.set
    /\ args.input.t = "string"
    /\ tokenize(defaults.tokenizer.tokenTypes, args.input.s).null

C4_EmptyOnFailure ==
    (pc # "idle" /\ TokenizeFails) => (pc = "returned" /\ results = << >>)

(***************************************************************************)
(* C5  Options of one call.  The defaults a grammar was given are those    *)
(* of the constructor with the setOption calls made so far on top.  A      *)
(* call without a second argument ends as a call on a grammar with those   *)
(* defaults ends, whatever the calls before it were given.                 *)
(***************************************************************************)
RECURSIVE DeclaredFrom(_, _, _)
DeclaredFrom(opts, calls, n) ==
    IF n > Len(calls) THEN opts
    ELSE DeclaredFrom(IF calls[n].op = "setOption"
                      THEN [opts EXCEPT ![calls[n].name] = calls[n].value]
                      ELSE opts,
                      calls, n + 1)

DeclaredDefaults == DeclaredFrom(ConstructorDefaults, SubSeq(script, 1, done), 1)

C5_CallOnly ==
    /\ pc # "idle" => \A name \in DOMAIN args.options :
                          defaults[name] = args.options[name]
    /\ (Finished /\ args.options = NoOptions) =>
           LET out == ParseOutcome(START, rules, DeclaredDefaults, args.input)
           IN  /\ pc = out.pc
               /\ error = out.error
               /\ results = out.results

(***************************************************************************)
(* C6  Whole tokens.  A scanner step for the terminal r on the token t     *)
(* adds the advanced state to the next state set if and only if r matches  *)
(* all of t; r is the regular expression addRule was given, which is what  *)
(* is stored without the first and the last character.                     *)
(***************************************************************************)
Unanchored(src) == SubSeq(src, 2, Len(src) - 1)

WholeMatch(src, chars) ==
    RegExpTest(<< "^", "(", "?", ":" >> \o src \o << ")", "$" >>, chars)

C6_WholeToken ==
    [][Scanner =>
         LET r == Unanchored(getNext(CurrentState(Cur)).s)
             t == TokenText(input[i + 1])
         IN  (Len(stateGrid'[i + 2]) = Len(stateGrid[i + 2]) + 1)
                 <=> WholeMatch(r, t)]_vars

(***************************************************************************)
(* C7  The iteration limit.  With maxIterations = M > 0 a call that has    *)
(* not thrown has counted at most M iterations; with maxIterations <= 0    *)
(* the iteration-limit error is never thrown.                              *)
(***************************************************************************)
C7_IterationLimit ==
    /\ (defaults.maxIterations > 0 /\ pc # "threw") =>
           numIterationsDone <= defaults.maxIterations
    /\ defaults.maxIterations <= 0 => error # ErrMaxIterations

(***************************************************************************)
(* C8  Rejection.  With a builder that rejects (returns undefined for)     *)
(* some subtrees, under each combination of addCategories and              *)
(* collapseBranches: the call does not throw the TypeError of the          *)
(* rejection test, and it returns the candidates without a rejected        *)
(* subtree, built as RefBuild builds them and deduplicated.                *)
(***************************************************************************)
\* The builder applied bottom-up, a rejection anywhere rejecting the whole.
RECURSIVE RefBuild(_, _)
RefBuild(options, obj) ==
    IF obj.k # "arr" \/ obj.c = << >> \/ obj.c[1].k # "flag" THEN obj
    ELSE LET mapped == [n \in 1 .. Len(obj.c) - 1 |-> RefBuild(options, obj.c[n + 1])]
         IN  IF \E n \in 1 .. Len(mapped) : mapped[n].k = "undef" THEN Undefined
             ELSE ApplyBuilder(options.expressionBuilder,
                               IF Len(mapped) = 1 /\ options.collapseBranches
                               THEN mapped[1] ELSE Arr(mapped))

RECURSIVE RefCandidatesFrom(_, _, _)
RefCandidatesFrom(options, set, n) ==
    IF n > Len(set) THEN << >>
    ELSE LET root == IF set[n].got = << >> THEN Undefined
                     ELSE RefBuild(options, set[n].got[1])
         IN  (IF IsResultState(set[n]) /\ root.k # "undef" THEN << root >> ELSE << >>)
                 \o RefCandidatesFrom(options, set, n + 1)

RefCandidates == RefCandidatesFrom(defaults, stateGrid[Len(stateGrid)], 1)

C8_Rejection ==
    defaults.expressionBuilder = "rejectB" =>
        /\ error # ErrIndexOf
        /\ pc = "returned" => DedupedOf(RefCandidates, results)

(***************************************************************************)
(* C9  The identity builder.  A call with the builder that returns its     *)
(* argument ends as the same call without a builder ends: same return or   *)
(* throw, same results.                                                    *)
(***************************************************************************)
C9_IdentityBuilder ==
    (defaults.expressionBuilder = "identity" /\ Finished) =>
        LET out == ParseOutcome(START, rules,
                                [defaults EXCEPT !.expressionBuilder = "null"],
                                args.input)
        IN  /\ pc = out.pc
            /\ error = out.error
            /\ results = out.results

(***************************************************************************)
(* C10  An undefined nonterminal.  For the grammar with start A whose      *)
(* only rule is A -> B: addRule has stored the rule, and a call on a       *)
(* nonempty sequence of tokens does not reach its results; it ends         *)
(* throwing the unknown-nonterminal error.                                 *)
(***************************************************************************)
UndefinedReference ==
    /\ START = A
    /\ script[1] = CallAddRule(A, << SeqString(B) >>)
    /\ done >= 1

C10_UnknownNonTerminal ==
    UndefinedReference =>
        /\ rules = [name \in {A} |-> << << Name(B) >> >>]
        /\ Len(input) > 0 =>
              /\ pc \notin {"results", "returned"}
              /\ pc = "threw" => error = ErrUnknown

C10_Witness ==
    /\ UndefinedReference
    /\ Len(input) = MaxInputLen
    /\ pc = "threw"
    /\ error = ErrUnknown

(***************************************************************************)
(* C11  No parse.  When the main loop is over and the last state set       *)
(* holds no complete state of the top rule '' -> START, the results stay   *)
(* empty and the call returns them without throwing, whenever              *)
(* maxIterations sets no limit and no undefined nonterminal was reached.   *)
(***************************************************************************)
NoCompleteTop ==
    /\ stateGrid # << >>
    /\ \A n \in 1 .. Len(stateGrid[Len(stateGrid)]) :
          LET state == stateGrid[Len(stateGrid)][n]
          IN  ~(state.lhs = << >> /\ state.pos = Len(state.rhs))

C11_EmptyResult ==
    (NoCompleteTop /\ defaults.maxIterations <= 0 /\ error # ErrUnknown) =>
        /\ pc \in {"results", "returned"} => results = << >>
        /\ pc # "threw"

C11_Witness ==
    /\ NoCompleteTop
    /\ defaults.maxIterations <= 0
    /\ pc = "returned"
    /\ results = << >>
    /\ Len(input) >= 1
    /\ \E n \in 1 .. Len(stateGrid[Len(stateGrid)]) :
          getNext(stateGrid[Len(stateGrid)][n]).t = "null"

(***************************************************************************)
(* Reference notions for the tokenizer claims.                             *)
(***************************************************************************)
\* The input of the pass after pass n: what pass n left of its input.
LeftBy(n) == IF n < Len(passes) THEN passes[n + 1].input ELSE remaining

RECURSIVE ConcatTexts(_, _)
ConcatTexts(ps, n) ==
    IF n > Len(ps) THEN << >> ELSE ps[n].text \o ConcatTexts(ps, n + 1)

\* match[0] of the regexp on the input.
MatchedText(regexp, str) ==
    LET match == RegExpExec(regexp, str)
    IN  SubSeq(str, match.index + 1, match.last)

(***************************************************************************)
(* C12  First match wins.  In every pass of tokenize the type that         *)
(* matched is the first, in the order of the addType calls, whose regexp   *)
(* matches the input of the pass, whatever the later types match; the      *)
(* text of the pass is that type's match, and the pass takes it off the    *)
(* front of the input.                                                     *)
(***************************************************************************)
C12_FirstMatchWins ==
    \A n \in 1 .. Len(passes) :
        LET pass == passes[n]
        IN  /\ RegExpTest(tokenTypes[pass.type].regexp, pass.input)
            /\ \A m \in 1 .. pass.type - 1 :
                  ~RegExpTest(tokenTypes[m].regexp, pass.input)
            /\ pass.text = MatchedText(tokenTypes[pass.type].regexp, pass.input)
            /\ pass.input = pass.text \o LeftBy(n)

(***************************************************************************)
(* C13  The consumed texts make up the string.  When tokenize returns      *)
(* its result, the texts of the passes, concatenated in order, are the     *)
(* string it was given, and every pass matched at position 0 of its input. *)
(***************************************************************************)
C13_Reconstructs ==
    /\ pc = "tokenized" => ConcatTexts(passes, 1) = args.input.s
    /\ \A n \in 1 .. Len(passes) :
          RegExpExec(tokenTypes[passes[n].type].regexp, passes[n].input).index = 0

(***************************************************************************)
(* C14  Failure.  A pass on an input that no type matches makes tokenize   *)
(* return null, whatever tokens it has collected; and tokenize returns     *)
(* its result only when nothing of the input remains.                      *)
(***************************************************************************)
NoTypeMatches ==
    \A n \in 1 .. Len(tokenTypes) : ~RegExpTest(tokenTypes[n].regexp, remaining)

RECURSIVE FormattedFrom(_)
FormattedFrom(n) ==
    IF n > Len(passes) THEN << >>
    ELSE LET next == ApplyFormatter(tokenTypes[passes[n].type].formatter.f,
                                    passes[n].text)
         IN  (IF next = Null THEN << >> ELSE << next >>) \o FormattedFrom(n + 1)

FunctionFormatters ==
    \A n \in 1 .. Len(tokenTypes) : tokenTypes[n].formatter.t = "function"

C15_DropOnlyNull ==
    (FunctionFormatters /\ pc \in {"tokenize", "tokenized"}) =>
        result = FormattedFrom(1)

(***************************************************************************)
(* C16  Template formatters.  The token of a pass whose formatter is a     *)
(* template is the template read from left to right, a % with the digits   *)
(* N after it standing for group N of the match (0 for the whole match)    *)
(* and every other character for itself; the text put in for a group is    *)
(* not read again.                                                         *)
(***************************************************************************)
GroupText(match, str, n) ==
    IF n = 0 THEN SubSeq(str, match.index + 1, match.last)
    ELSE SubSeq(str, match.caps[n][1] + 1, match.caps[n][2])

RECURSIVE Expansion(_, _, _)
Expansion(format, match, str) ==
    IF format = << >> THEN << >>
    ELSE IF format[1] = "%" /\ Len(format) >= 2 /\ format[2] \in Digits
    THEN LET e == DigitsEnd(format, 2)
         IN  GroupText(match, str, NumberOf(SubSeq(format, 2, e - 1), 0))
                 \o Expansion(SubSeq(format, e, Len(format)), match, str)
    ELSE << format[1] >> \o Expansion(Tail(format), match, str)

TemplateFormatters ==
    /\ tokenTypes # << >>
    /\ \A n \in 1 .. Len(tokenTypes) : tokenTypes[n].formatter.t = "string"

C16_Template ==
    (TemplateFormatters /\ pc \in {"tokenize", "tokenized"}) =>
        /\ Len(result) = Len(passes)
        /\ \A n \in 1 .. Len(passes) :
              LET type == tokenTypes[passes[n].type]
              IN  result[n] = Str(Expansion(type.formatter.f,
                                            RegExpExec(type.regexp, passes[n].input),
                                            passes[n].input))

C16_Witness ==
    /\ TemplateFormatters
    /\ pc = "tokenized"
    /\ args.input.s = << "%", "1", "a" >>
    /\ result = << Str(<< "%", "1", "a" >>) >>

(***************************************************************************)
(* C17  The tokenizer in parse.  A call on a string with a tokenizer set   *)
(* ends as the call on the tokens of the string ends, when tokenize        *)
(* returns tokens; a call on an array reads the array itself, tokenizer    *)
(* or not; a call on a string without a tokenizer reads the characters of  *)
(* the string as its tokens.                                               *)
(***************************************************************************)
SameOutcome(out) ==
    /\ pc = out.pc
    /\ error = out.error
    /\ results = out.results

Characters(chars) == [n \in 1 .. Len(chars) |-> Str(<< chars[n] >>)]

C17_TokenizerUse ==
    pc # "idle" =>
        /\ args.input.t = "array" => input = args.input.a
        /\ (args.input.t = "string" /\ ~defaults.tokenizer.set) =>
              /\ input = Characters(args.input.s)
              /\ Finished =>
                    SameOutcome(ParseOutcome(START, rules, defaults,
                                             InputArray(Characters(args.input.s))))
        /\ (args.input.t = "string" /\ defaults.tokenizer.set) =>
              LET tokens == tokenize(defaults.tokenizer.tokenTypes, args.input.s)
              IN  ~tokens.null =>
                      /\ input = tokens.tokens
                      /\ Finished =>
                            SameOutcome(ParseOutcome(START, rules, defaults,
                                                     InputArray(tokens.tokens)))

C17_Witness ==
    /\ pc = "returned"
    /\ defaults.tokenizer.set
    /\ args.input = InputString(<< "a", "b" >>)
    /\ input = << Str(a) >>
    /\ results # << >>

(***************************************************************************)
(* C18  The forms of a right-hand side.  The rule table after the calls    *)
(* of addRule made so far is the table after the same calls with one       *)
(* sequence for each call, in the order of the arguments, each sequence    *)
(* written as an array: [r] for a regular expression r, the words of a     *)
(* string for the string.                                                  *)
(***************************************************************************)
RECURSIVE WordsOf(_)
WordsOf(chars) ==
    IF \A n \in 1 .. Len(chars) : chars[n] # " " THEN << chars >>
    ELSE LET k == CHOOSE n \in 1 .. Len(chars) :
                      /\ chars[n] = " "
                      /\ \A m \in 1 .. n - 1 : chars[m] # " "
         IN  << SubSeq(chars, 1, k - 1) >> \o WordsOf(SubSeq(chars, k + 1, Len(chars)))

AsArray(sequence) ==
    IF sequence.t = "regexp" THEN SeqArray(<< RegExp(sequence.s) >>)
    ELSE IF sequence.t = "array" THEN sequence
    ELSE LET words == WordsOf(sequence.s)
         IN  SeqArray([n \in 1 .. Len(words) |-> Name(words[n])])

\* The calls with one array each that stand for the calls from n on.
RECURSIVE OneByOne(_, _)
OneByOne(calls, n) ==
    IF n > Len(calls) THEN << >>
    ELSE (IF calls[n].op # "addRule" THEN << >>
          ELSE [m \in 1 .. Len(calls[n].sequences) |->
                   CallAddRule(calls[n].categoryName,
                               << AsArray(calls[n].sequences[m]) >>)])
             \o OneByOne(calls, n + 1)

RECURSIVE RulesAfter(_, _, _)
RulesAfter(rls, calls, n) ==
    IF n > Len(calls) THEN rls
    ELSE RulesAfter(IF calls[n].op = "addRule"
                    THEN addRule(rls, calls[n].categoryName, calls[n].sequences)
                    ELSE rls,
                    calls, n + 1)

C18_SameRuleTable ==
    rules = RulesAfter(<< >>, OneByOne(SubSeq(script, 1, done), 1), 1)

C18_Witness ==
    /\ done = 1
    /\ DOMAIN rules = {S}
    /\ rules[S] = << << Name(S), Name(S) >>, << RegExp(<< "^", "a", "$" >>) >> >>
    /\ script[1] = GrammarAmbiguous.calls[1]
    /\ Len(OneByOne(SubSeq(script, 1, done), 1)) = 2

(***************************************************************************)
(* C19  Anchored terminals.  A call of parse ends as it ends on the        *)
(* grammar built by the same calls of addRule with ^r$ in the place of     *)
(* every regular expression r.                                             *)
(***************************************************************************)
WithAnchors(src) == << "^" >> \o src \o << "$" >>

AnchoredSequence(sequence) ==
    IF sequence.t = "regexp" THEN SeqRegExp(WithAnchors(sequence.s))
    ELSE IF sequence.t = "array"
    THEN SeqArray([n \in 1 .. Len(sequence.a) |->
                      IF sequence.a[n].t = "regexp"
                      THEN RegExp(WithAnchors(sequence.a[n].s))
                      ELSE sequence.a[n]])
    ELSE sequence

AnchoredCalls(calls) ==
    [n \in 1 .. Len(calls) |->
        IF calls[n].op # "addRule" THEN calls[n]
        ELSE CallAddRule(calls[n].categoryName,
                         [m \in 1 .. Len(calls[n].sequences) |->
                             AnchoredSequence(calls[n].sequences[m])])]

AnchoredRules == RulesAfter(<< >>, AnchoredCalls(SubSeq(script, 1, done)), 1)

C19_AnchoredAlready ==
    Finished => SameOutcome(ParseOutcome(START, AnchoredRules, defaults, args.input))

C19_Witness ==
    /\ pc = "returned"
    /\ results # << >>
    /\ args.input = InputArray(<< Str(<< "a", "b" >>) >>)
    /\ AnchoredRules # rules

(***************************************************************************)
(* C20  The calls of the builder.  For every candidate that parse has      *)
(* built and kept, the calls of the expressionBuilder made for it are      *)
(* those of BuiltCalls on its derivation tree: one call for each           *)
(* nonterminal node, the calls for the children of a node, from left to    *)
(* right, before the call for the node, the argument of a call made of     *)
(* the values returned for the children; and the candidate is the value    *)
(* returned for the root.  The derivation tree of a candidate is what the  *)
(* same entry of the last state set holds in a call with categories,       *)
(* without collapsing and without a builder.                               *)
(***************************************************************************)
PlainOptions ==
    [defaults EXCEPT !.addCategories = TRUE, !.collapseBranches = FALSE,
                     !.expressionBuilder = "null"]

\* The derivation tree of entry n of the last state set.
DerivationOf(n) ==
    LET plain == ParseOutcome(START, rules, PlainOptions, args.input).stateGrid
    IN  plain[Len(plain)][n].got[1]

RECURSIVE BuiltValue(_)
BuiltArgs(t) ==
    LET kids == [n \in 1 .. Len(t.c) - 1 |-> BuiltValue(t.c[n + 1])]
        list == IF defaults.addCategories THEN << t.c[1] >> \o kids ELSE kids
    IN  IF defaults.collapseBranches /\ Len(list) = 1 THEN list[1] ELSE Arr(list)
BuiltValue(t) ==
    IF t.k # "arr" THEN t
    ELSE ApplyBuilder(defaults.expressionBuilder, BuiltArgs(t))

RECURSIVE BuiltCalls(_)
RECURSIVE BuiltCallsOfChildren(_, _)
BuiltCalls(t) ==
    IF t.k # "arr" THEN << >>
    ELSE BuiltCallsOfChildren(t.c, 2)
             \o << [args |-> BuiltArgs(t), returned |-> BuiltValue(t)] >>
BuiltCallsOfChildren(elems, n) ==
    IF n > Len(elems) THEN << >>
    ELSE BuiltCalls(elems[n]) \o BuiltCallsOfChildren(elems, n + 1)

\* The calls logged for entry n of the last state set, without the mark.
RECURSIVE CallsFor(_, _)
CallsFor(n, k) ==
    IF k > Len(builderCalls) THEN << >>
    ELSE (IF builderCalls[k].entry = n
          THEN << [args |-> builderCalls[k].args,
                   returned |-> builderCalls[k].returned] >>
          ELSE << >>) \o CallsFor(n, k + 1)

\* Entry n (from 0) of the last state set has been processed and kept.
KeptCandidate(n) ==
    LET state == stateGrid[Len(stateGrid)][n + 1]
    IN  /\ IsResultState(state)
        /\ Truthy(RootOf(defaults, state))

C20_BuilderCalls ==
    (pc \in {"results", "returned"} /\ defaults.expressionBuilder # "null") =>
        \A n \in 0 .. Len(stateGrid[Len(stateGrid)]) - 1 :
            (KeptCandidate(n) /\ (pc = "results" => n < j)) =>
                /\ CallsFor(n, 1) = BuiltCalls(DerivationOf(n + 1))
                /\ RootOf(defaults, stateGrid[Len(stateGrid)][n + 1])
                       = BuiltValue(DerivationOf(n + 1))

(***************************************************************************)
(* C21  The argument of the builder.  As the claim has it, the argument    *)
(* of the call for a node is made of the values of the node's children     *)
(* alone (the single value when there is one and collapseBranches is       *)
(* true), with no mark and no category name: the calls made for a kept     *)
(* candidate have the arguments ChildrenOnly gives on its derivation tree. *)
(***************************************************************************)
Collapsed(list) ==
    IF defaults.collapseBranches /\ Len(list) = 1 THEN list[1] ELSE Arr(list)

RECURSIVE ChildrenOnly(_)
ChildrenOnly(t) ==
    Collapsed([n \in 1 .. Len(t.c) - 1 |->
                  IF t.c[n + 1].k # "arr" THEN t.c[n + 1]
                  ELSE ApplyBuilder(defaults.expressionBuilder,
                                    ChildrenOnly(t.c[n + 1]))])

RECURSIVE ChildrenOnlyCalls(_, _)
ChildrenOnlyCalls(t, n) ==
    IF t.k # "arr" THEN << >>
    ELSE IF n > Len(t.c) THEN << ChildrenOnly(t) >>
    ELSE ChildrenOnlyCalls(t.c[n], 2) \o ChildrenOnlyCalls(t, n + 1)

ArgsFor(n) == [k \in 1 .. Len(CallsFor(n, 1)) |-> CallsFor(n, 1)[k].args]

Processed(n) == pc = "results" => n < j

RECURSIVE HasFlag(_)
HasFlag(v) == v.k = "flag" \/ (v.k = "arr" /\ \E n \in 1 .. Len(v.c) : HasFlag(v.c[n]))

RECURSIVE ArgsOf(_, _)
ArgsOf(t, n) ==
    IF t.k # "arr" THEN << >>
    ELSE IF n > Len(t.c) THEN << BuiltArgs(t) >>
    ELSE ArgsOf(t.c[n], 2) \o ArgsOf(t, n + 1)

RECURSIVE CollapsedAfter(_)
CollapsedAfter(t) ==
    IF t.k # "arr" THEN t
    ELSE LET kids == [n \in 1 .. Len(t.c) |-> CollapsedAfter(t.c[n])]
         IN  IF Len(kids) = 1 THEN kids[1] ELSE Arr(kids)

RECURSIVE HasSingleton(_)
HasSingleton(t) ==
    t.k = "arr" /\ (Len(t.c) = 1 \/ \E n \in 1 .. Len(t.c) : HasSingleton(t.c[n]))

\* seq without the entries that an earlier entry left in reports equal.
RECURSIVE WithoutDuplicates(_, _, _)
WithoutDuplicates(seq, n, kept) ==
    IF n > Len(seq) THEN kept
    ELSE WithoutDuplicates(seq, n + 1,
             IF \E k \in 1 .. Len(kept) : Compare(defaults.comparator, kept[k], seq[n])
             THEN kept ELSE Append(kept, seq[n]))

Uncollapsed ==
    ParseOutcome(START, rules, [defaults EXCEPT !.collapseBranches = FALSE], args.input)

C22_CollapseAfterwards ==
    (Finished /\ defaults.collapseBranches /\ ~defaults.addCategories
              /\ defaults.expressionBuilder = "null") =>
        /\ pc = Uncollapsed.pc
        /\ error = Uncollapsed.error
        /\ results = WithoutDuplicates(
                         [n \in 1 .. Len(Uncollapsed.results) |->
                             CollapsedAfter(Uncollapsed.results[n])], 1, << >>)
        /\ \A n \in 1 .. Len(results) : ~HasSingleton(results[n])

C22_Witness ==
    /\ pc = "returned"
    /\ defaults.collapseBranches
    /\ ~defaults.addCategories
    /\ defaults.expressionBuilder = "null"
    /\ Len(results) = 2
    /\ \E n \in 1 .. Len(Uncollapsed.results) : HasSingleton(Uncollapsed.results[n])

(***************************************************************************)
(* C23  Sums of products.  For the grammar P -> S ; S -> S + M | M ;       *)
(* M -> M * T | T ; T -> integer, without categories, with                 *)
(* collapseBranches, without a builder and without a limit: the call on    *)
(* the tokens 15 + -2 * 9 returns the one tree [15, +, [-2, *, 9]], and    *)
(* the call on 7 * 50 * 33 * 1 the one tree [[[7, *, 50], *, 33], *, 1],   *)
(* whatever the comparator.                                                *)
(***************************************************************************)
ArithmeticCall ==
    /\ START = P
    /\ done >= Len(GrammarArithmetic.calls)
    /\ SubSeq(script, 1, Len(GrammarArithmetic.calls)) = GrammarArithmetic.calls
    /\ Finished
    /\ ~defaults.addCategories
    /\ defaults.collapseBranches
    /\ defaults.expressionBuilder = "null"
    /\ defaults.maxIterations <= 0

SumTree == Arr(<< Sum[1], Sum[2], Arr(<< Sum[3], Sum[4], Sum[5] >>) >>)

ProductTree ==
    Arr(<< Arr(<< Arr(<< Product[1], Product[2], Product[3] >>),
                  Product[4], Product[5] >>),
           Product[6], Product[7] >>)

C23_SumsOfProducts ==
    ArithmeticCall =>
        /\ args.input = InputArray(Sum) =>
              (pc = "returned" /\ results = << SumTree >>)
        /\ args.input = InputArray(Product) =>
              (pc = "returned" /\ results = << ProductTree >>)

C23_Witness ==
    /\ ArithmeticCall
    /\ defaults.comparator = "no"
    /\ args.input = InputArray(Product)
    /\ results = << ProductTree >>

(***************************************************************************)
(* C24  The order of the results.  During a call every state set and the   *)
(* results only grow at their end, and a result is added only for the      *)
(* entry of the last state set that the results loop is at; so what is     *)
(* returned are roots of complete top-level states of the last state set   *)
(* in the order of the set.  The states a prediction adds to a state set   *)
(* for one nonterminal are in the order of that nonterminal's rules.       *)
(***************************************************************************)
IsPrefix(s1, s2) == Len(s1) <= Len(s2) /\ SubSeq(s2, 1, Len(s1)) = s1

\* The first rule of lhs that equalArrays finds equal to rhs.
RuleIndex(lhs, rhs) ==
    CHOOSE r \in 1 .. Len(rules[lhs]) :
        /\ equalArrays(rules[lhs][r], rhs)
        /\ \A q \in 1 .. r - 1 : ~equalArrays(rules[lhs][q], rhs)

PredictedInRuleOrder(set) ==
    \A m, n \in 1 .. Len(set) :
        (m < n /\ set[m].pos = 0 /\ set[n].pos = 0 /\ set[m].lhs # << >>
               /\ set[m].lhs = set[n].lhs) =>
            RuleIndex(set[m].lhs, set[m].rhs) < RuleIndex(set[n].lhs, set[n].rhs)

ResultPositions ==
    {n \in 1 .. Len(stateGrid[Len(stateGrid)]) :
        IsResultState(stateGrid[Len(stateGrid)][n])}

LastSetRoots ==
    [n \in 1 .. Len(stateGrid[Len(stateGrid)]) |->
        RootOf(defaults, stateGrid[Len(stateGrid)][n])]

C24_ResultOrder ==
    /\ [][(pc = "loop" \/ pc = "results") =>
             /\ Len(stateGrid') = Len(stateGrid)
             /\ \A k \in 1 .. Len(stateGrid) : IsPrefix(stateGrid[k], stateGrid'[k])
             /\ IsPrefix(results, results')
             /\ results' # results =>
                   /\ pc = "results"
                   /\ stateGrid' = stateGrid
                   /\ results' = Append(results, LastSetRoots[j + 1])]_vars
    /\ [](pc \in {"loop", "results", "returned"} =>
             \A k \in 1 .. Len(stateGrid) : PredictedInRuleOrder(stateGrid[k]))
    /\ [](pc = "returned" =>
             \E Kept \in SUBSET ResultPositions : results = Pick(LastSetRoots, Kept, 1))

C24_Witness ==
    /\ pc = "returned"
    /\ ~defaults.addCategories
    /\ Len(results) = 2
    /\ results[1] # results[2]
    /\ \E m, n \in ResultPositions :
          m < n /\ results = << LastSetRoots[m], LastSetRoots[n] >>

(***************************************************************************)
(* C25  The order of the alternatives.  When a call has returned, the      *)
(* same call on the grammar with the right-hand sides of one nonterminal   *)
(* in another order returns too, and each of the two sequences has, for    *)
(* every tree of the other, a tree that is the same or that the            *)
(* comparator reports equal.                                               *)
(***************************************************************************)
OrdersOf(n) ==
    {f \in [1 .. n -> 1 .. n] : \A p1, p2 \in 1 .. n : f[p1] = f[p2] => p1 = p2}

\* The rules with the right-hand sides of lhs in the order f.
Reordered(rls, lhs, f) ==
    [rls EXCEPT ![lhs] = [n \in 1 .. Len(rls[lhs]) |-> rls[lhs][f[n]]]]

Alike(x, y) ==
    \/ x = y
    \/ Compare(defaults.comparator, x, y)
    \/ Compare(defaults.comparator, y, x)

SameTrees(seq1, seq2) ==
    /\ \A m \in 1 .. Len(seq1) : \E n \in 1 .. Len(seq2) : Alike(seq1[m], seq2[n])
    /\ \A n \in 1 .. Len(seq2) : \E m \in 1 .. Len(seq1) : Alike(seq1[m], seq2[n])

C25_AlternativeOrder ==
    pc = "returned" =>
        \A lhs \in DOMAIN rules :
            \A f \in OrdersOf(Len(rules[lhs])) :
                LET out == ParseOutcome(START, Reordered(rules, lhs, f), defaults,
                                        args.input)
                IN  /\ out.pc = "returned"
                    /\ SameTrees(results, out.results)

(***************************************************************************)
(* C26  The empty input.  On a grammar with at least one rule, a call on   *)
(* the empty sequence of tokens never throws and never holds a result:     *)
(* it returns the empty sequence, whatever the grammar and the options.    *)
(***************************************************************************)
EmptyInputCall ==
    /\ pc # "idle"
    /\ DOMAIN rules # {}
    /\ args.input = InputArray(<< >>)

C26_EmptyInput ==
    EmptyInputCall =>
        /\ pc # "threw"
        /\ results = << >>

C26_Witness ==
    /\ EmptyInputCall
    /\ pc = "returned"
    /\ results = << >>
    /\ B \in DOMAIN rules
    /\ defaults.maxIterations = 1
    /\ stateGrid = << << TopState(START) >> >>
(***************************************************************************)
(* C27: the default comparator returns true exactly when its arguments     *)
(* are structurally equal JSON values: identical atoms, arrays of equal    *)
(* length with equal entries in order, objects with the same key set and   *)
(* equal contents per key whatever the order of the keys, an array never   *)
(* equal to an object that is no array; and it is symmetric.               *)
(***************************************************************************)
KeySet(x) == {x.c[n].s : n \in 1 .. Len(x.c)}
ContentAt(x, key) == x.c[CHOOSE n \in 1 .. Len(x.c) : x.c[n].s = key].c[1]

RECURSIVE StructurallyEqual(_, _)
StructurallyEqual(x, y) ==
    CASE x.k = "arr" /\ y.k = "arr" ->
             /\ Len(x.c) = Len(y.c)
             /\ \A n \in 1 .. Len(x.c) : StructurallyEqual(x.c[n], y.c[n])
      [] x.k = "obj" /\ y.k = "obj" ->
             /\ KeySet(x) = KeySet(y)
             /\ \A key \in KeySet(x) :
                    StructurallyEqual(ContentAt(x, key), ContentAt(y, key))
      [] x.k \in {"arr", "obj"} \/ y.k \in {"arr", "obj"} -> FALSE
      [] OTHER -> x = y

C27_StructuralEquality ==
    compared.called =>
        /\ compared.returned = StructurallyEqual(compared.x, compared.y)
        /\ compared.returned = sameJSON(compared.y, compared.x)

\* Two objects with the same keys written in different orders, one inside
\* the other value each, have been compared and found equal.
C27_Witness ==
    /\ compared.called
    /\ compared.returned
    /\ compared.x # compared.y
    /\ compared.x.k = "arr"
    /\ compared.x.c[1].k = "obj"

(***************************************************************************)
(* C28  The predictor in every state set.  Once the main loop of a call    *)
(* is over, every state set, the last one included, that holds a state     *)
(* whose next symbol is a nonterminal with rules also holds, for every     *)
(* right-hand side of that nonterminal, the state at position 0 that       *)
(* began in this state set.                                                *)
(***************************************************************************)
Predicted(set, next, k) ==
    \A r \in 1 .. Len(rules[next]) :
        \E m \in 1 .. Len(set) :
            /\ set[m].lhs = next
            /\ equalArrays(set[m].rhs, rules[next][r])
            /\ set[m].pos = 0
            /\ set[m].ori = k - 1

C28_PredictedEverywhere ==
    pc \in {"results", "returned"} =>
        \A k \in 1 .. Len(stateGrid) :
            \A n \in 1 .. Len(stateGrid[k]) :
                (/\ getNext(stateGrid[k][n]).t = "string"
                 /\ getNext(stateGrid[k][n]).s \in DOMAIN rules)
                    => Predicted(stateGrid[k], getNext(stateGrid[k][n]).s, k)

(***************************************************************************)
(* C29  Empty right-hand sides.  Once the main loop of a call is over,     *)
(* every state of a state set whose next symbol is a nonterminal with an   *)
(* empty right-hand side has its advanced copy in the same state set: the  *)
(* same rule and origin, the position one further, and the subtree of the  *)
(* empty nonterminal appended to what it has got.                          *)
(***************************************************************************)
HasEmptyRule(next) ==
    /\ next.t = "string"
    /\ next.s \in DOMAIN rules
    /\ \E r \in 1 .. Len(rules[next.s]) : rules[next.s][r] = << >>

EmptySubtree(lhs, k) ==
    CompletedSubtree(defaults,
        [lhs |-> lhs, rhs |-> << >>, pos |-> 0, ori |-> k - 1, got |-> << >>])

Advanced(set, state, k) ==
    \E m \in 1 .. Len(set) :
        /\ set[m].lhs = state.lhs
        /\ set[m].rhs = state.rhs
        /\ set[m].ori = state.ori
        /\ set[m].pos = state.pos + 1
        /\ set[m].got = Append(state.got, EmptySubtree(getNext(state).s, k))

C29_EmptyAdvanced ==
    pc \in {"results", "returned"} =>
        \A k \in 1 .. Len(stateGrid) :
            \A n \in 1 .. Len(stateGrid[k]) :
                HasEmptyRule(getNext(stateGrid[k][n]))
                    => Advanced(stateGrid[k], stateGrid[k][n], k)

(***************************************************************************)
(* C30  Termination.  With maxIterations unlimited every call of parse     *)
(* ends, for grammars with left recursion and with cycles too.  A call     *)
(* that ends takes no completer step that pushes, onto the state set the   *)
(* main loop is in, a state with the rule, the position and the origin of  *)
(* the state it completes: the main loop comes to the pushed state later,  *)
(* completes it against an origin state set that has lost nothing, and     *)
(* pushes such a state again, and so on without end.                       *)
(***************************************************************************)
SameItem(state1, state2) ==
    /\ state1.lhs = state2.lhs
    /\ state1.rhs = state2.rhs
    /\ state1.pos = state2.pos
    /\ state1.ori = state2.ori

PushesItself ==
    /\ IsCompleter(Cur)
    /\ i' = i
    /\ pc' = "loop"
    /\ \E m \in Len(stateGrid[i + 1]) + 1 .. Len(stateGrid'[i + 1]) :
           SameItem(stateGrid'[i + 1][m], CurrentState(Cur))

C30_Terminates == [][defaults.maxIterations <= 0 => ~PushesItself]_vars

(***************************************************************************)
(* C31  The traversal of a state set.  The passes of the while loop made   *)
(* so far are, in this order, one pass for every entry of every state set  *)
(* before the current one, in ascending order of the entries and with the  *)
(* entries pushed during the traversal included, then one pass for each    *)
(* of the first j entries of the current state set; when the main loop is  *)
(* over that is one pass for every entry of the grid.  In a state set that *)
(* has a successor the pass of an entry went to the completer when the     *)
(* entry has no next symbol, to the scanner when its next symbol is a      *)
(* terminal and to the predictor when it is a nonterminal.                 *)
(***************************************************************************)
RECURSIVE PassesUpTo(_, _)
PassesUpTo(k, m) ==
    IF k = 0 THEN << >>
    ELSE PassesUpTo(k - 1, IF k = 1 THEN 0 ELSE Len(stateGrid[k - 1]))
             \o [n \in 1 .. m |-> << k - 1, n - 1 >>]

PassesMade == [n \in 1 .. Len(dispatched) |-> << dispatched[n].i, dispatched[n].j >>]

HandlerOf(state) ==
    CASE getNext(state).t = "null" -> "completer"
      [] getNext(state).t = "regexp" -> "scanner"
      [] OTHER -> "predictor"

C31_EachEntryOnce ==
    /\ pc = "loop" => PassesMade = PassesUpTo(i + 1, j)
    /\ pc \in {"results", "returned"} =>
           PassesMade = PassesUpTo(Len(stateGrid), Len(stateGrid[Len(stateGrid)]))
    /\ pc \in {"loop", "results", "returned"} =>
           \A n \in 1 .. Len(dispatched) :
               dispatched[n].i < Len(input) =>
                   dispatched[n].to =
                       HandlerOf(stateGrid[dispatched[n].i + 1][dispatched[n].j + 1])

\* A call on two tokens or more has returned a tree, and in the second
\* state set a pass of the completer was followed by passes for the
\* entries it pushed.
C31_Witness ==
    /\ pc = "returned"
    /\ Len(input) >= 2
    /\ results # << >>
    /\ \E n \in 1 .. Len(dispatched) :
           /\ dispatched[n].i = 1
           /\ dispatched[n].to = "completer"
           /\ dispatched[n].j < Len(stateGrid[2]) - 1
           /\ \E m \in n + 1 .. Len(dispatched) :
                  dispatched[m].i = 1 /\ dispatched[m].to = "predictor"

(***************************************************************************)
(* C32  No prediction twice.  At every moment of a call no state set       *)
(* holds two states at position 0 with the same left-hand side and the     *)
(* same right-hand side, right-hand sides being the same when they have    *)
(* the same length and, entry by entry, the same string or regular         *)
(* expressions with the same source.                                       *)
(***************************************************************************)
SameRhs(rhs1, rhs2) ==
    /\ Len(rhs1) = Len(rhs2)
    /\ \A n \in 1 .. Len(rhs1) : rhs1[n].t = rhs2[n].t /\ rhs1[n].s = rhs2[n].s

C32_PredictedOnce ==
    \A k \in 1 .. Len(stateGrid) :
        \A m, n \in 1 .. Len(stateGrid[k]) :
            (/\ m < n
             /\ stateGrid[k][m].pos = 0
             /\ stateGrid[k][n].pos = 0
             /\ stateGrid[k][m].lhs = stateGrid[k][n].lhs)
                => ~SameRhs(stateGrid[k][m].rhs, stateGrid[k][n].rhs)

\* A nonterminal that has the same right-hand side twice has been
\* predicted, and the call has returned a tree.
RuleTwice ==
    \E name \in DOMAIN rules :
        /\ \E m, n \in 1 .. Len(rules[name]) :
               m < n /\ SameRhs(rules[name][m], rules[name][n])
        /\ \E n \in 1 .. Len(dispatched) :
               /\ dispatched[n].to = "predictor"
               /\ getNext(stateGrid[dispatched[n].i + 1][dispatched[n].j + 1]).s = name

C32_Witness == pc = "returned" /\ results # << >> /\ RuleTwice

(***************************************************************************)
(* C33  Passes only append.  A pass of the while loop for an entry of      *)
(* state set i leaves the grid with its N + 1 state sets, each state set   *)
(* beginning with exactly the states it held before, so that no state is   *)
(* removed, moved or changed; the state sets other than i and i + 1 are    *)
(* untouched; state set i grows only in a pass for an entry without a next *)
(* symbol or waiting for a nonterminal, and state set i + 1 only in a pass *)
(* for an entry waiting for a terminal, with i < N, and by one state.      *)
(***************************************************************************)
C33_OnlyAppends ==
    /\ [][pc = "loop" =>
             /\ Len(stateGrid') = Len(stateGrid)
             /\ \A k \in 1 .. Len(stateGrid) : IsPrefix(stateGrid[k], stateGrid'[k])
             /\ \A k \in 1 .. Len(stateGrid) :
                    (k # i + 1 /\ k # i + 2) => stateGrid'[k] = stateGrid[k]
             /\ stateGrid'[i + 1] # stateGrid[i + 1] =>
                    /\ j < Len(stateGrid[i + 1])
                    /\ HandlerOf(stateGrid[i + 1][j + 1]) \in {"completer", "predictor"}
             /\ (i + 2 <= Len(stateGrid) /\ stateGrid'[i + 2] # stateGrid[i + 2]) =>
                    /\ j < Len(stateGrid[i + 1])
                    /\ HandlerOf(stateGrid[i + 1][j + 1]) = "scanner"
                    /\ i < Len(input)
                    /\ Len(stateGrid'[i + 2]) = Len(stateGrid[i + 2]) + 1]_vars
    /\ [](pc \in {"loop", "results", "returned"} => Len(stateGrid) = Len(input) + 1)

\* A call has returned a tree, and its last state set holds a state pushed
\* by the scanner and a state pushed by the completer, after a state set
\* that holds predicted states.
C33_Witness ==
    /\ pc = "returned"
    /\ results # << >>
    /\ Len(input) >= 2
    /\ \E n \in 1 .. Len(stateGrid[Len(input)]) :
           stateGrid[Len(input)][n].pos = 0 /\ stateGrid[Len(input)][n].ori > 0
    /\ \E m, n \in 1 .. Len(stateGrid[Len(input) + 1]) :
           /\ stateGrid[Len(input) + 1][m].pos > 0
           /\ stateGrid[Len(input) + 1][m].got[stateGrid[Len(input) + 1][m].pos].k = "str"
           /\ stateGrid[Len(input) + 1][n].pos > 0
           /\ stateGrid[Len(input) + 1][n].got[stateGrid[Len(input) + 1][n].pos].k = "arr"

(***************************************************************************)
(* C34  The shape of a state.  At every moment of a call every state of    *)
(* state set i has its position between 0 and the length of its            *)
(* right-hand side, has got as many subtrees or tokens as its position,    *)
(* and has its origin between 0 and i; a state at position 0 has origin i. *)
(***************************************************************************)
WellFormed(state, k) ==
    /\ 0 <= state.pos
    /\ state.pos <= Len(state.rhs)
    /\ Len(state.got) = state.pos
    /\ 0 <= state.ori
    /\ state.ori <= k
    /\ state.pos = 0 => state.ori = k

C34_WellFormed ==
    \A k \in 1 .. Len(stateGrid) :
        \A n \in 1 .. Len(stateGrid[k]) : WellFormed(stateGrid[k][n], k - 1)

\* A state set beyond the first holds a predicted state, a state in the
\* middle of a right-hand side and a complete state of two symbols or more
\* that began in an earlier state set.
C34_Witness ==
    \E k \in 2 .. Len(stateGrid) :
        \E m, n, q \in 1 .. Len(stateGrid[k]) :
            /\ stateGrid[k][m].pos = 0
            /\ stateGrid[k][n].pos > 0
            /\ stateGrid[k][n].pos < Len(stateGrid[k][n].rhs)
            /\ stateGrid[k][q].pos = Len(stateGrid[k][q].rhs)
            /\ stateGrid[k][q].pos >= 2
            /\ stateGrid[k][q].ori < k - 1

(***************************************************************************)
(* C35  Where the results come from.  The result of a call changes only    *)
(* in the results loop, by the push of got[0], through the builder when    *)
(* there is one, of the entry of the last state set the loop is at, which  *)
(* is a complete state of the top rule; and when the call has returned,    *)
(* every complete state of the top rule in the last state set for which    *)
(* no call of the builder returned undefined has its tree in the result,   *)
(* or a tree of the result that the comparator reports equal to it.        *)
(***************************************************************************)
NotRejected(n) ==
    \A q \in 1 .. Len(builderCalls) :
        builderCalls[q].entry = n - 1 => builderCalls[q].returned # Undefined

Contributed(root) ==
    \E m \in 1 .. Len(results) :
        results[m] = root \/ Compare(defaults.comparator, results[m], root)

C35_ResultsFromTop ==
    /\ [][results' # results =>
             IF pc = "results"
             THEN /\ IsResultState(stateGrid[Len(stateGrid)][j + 1])
                  /\ results' = Append(results, LastSetRoots[j + 1])
             ELSE results' = << >>]_vars
    /\ [](pc = "returned" =>
             \A n \in ResultPositions : NotRejected(n) => Contributed(LastSetRoots[n]))

(***************************************************************************)
(* C36  What is counted.  As the claim has it, a pass of the while loop    *)
(* adds to the iteration counter one for each state the scanner or the     *)
(* completer pushes in it and one when it is a pass of the predictor, and  *)
(* the pass throws the iteration-limit error exactly when the limit test   *)
(* holds of the last value counted.                                        *)
(***************************************************************************)
RECURSIVE GridSize(_, _)
GridSize(grid, k) == IF k = 0 THEN 0 ELSE Len(grid[k]) + GridSize(grid, k - 1)

Pushed == GridSize(stateGrid', Len(stateGrid')) - GridSize(stateGrid, Len(stateGrid))
Counted == numIterationsDone' - numIterationsDone
LastPass == dispatched'[Len(dispatched')]
IsPass == pc = "loop" /\ Len(dispatched') = Len(dispatched) + 1

LimitChecked ==
    Counted > 0 =>
        ((pc' = "threw" /\ error' = ErrMaxIterations)
            <=> LimitReached(numIterationsDone' - 1, defaults.maxIterations))

C36_CountsEveryPush ==
    [][IsPass =>
          /\ Counted = IF LastPass.to = "predictor" THEN 1
                       ELSE IF LastPass.to \in {"completer", "scanner"} THEN Pushed
                       ELSE 0
          /\ LimitChecked]_vars

(***************************************************************************)
(* C36, amended.  A pass of the while loop adds to the iteration counter   *)
(* one for each state the completer pushes in it, and one when it is a     *)
(* pass of the predictor, whether or not the predictor pushes; a pass of   *)
(* the scanner adds nothing and makes no limit test.  A pass that counts   *)
(* throws the iteration-limit error exactly when the limit test holds of   *)
(* the last value counted.                                                 *)
(***************************************************************************)
C36_CountsCompleterAndPredictor ==
    [][IsPass =>
          /\ Counted = IF LastPass.to = "predictor" THEN 1
                       ELSE IF LastPass.to = "completer" THEN Pushed
                       ELSE 0
          /\ LimitChecked
          /\ Counted = 0 => error' # ErrMaxIterations]_vars

\* A call has returned a tree after passes of the scanner that pushed, of
\* the completer that pushed twice in one pass, and of the predictor, and
\* the counter is the number of predictor passes and completer pushes.
C36_Witness ==
    /\ pc = "returned"
    /\ results # << >>
    /\ Len(stateGrid[Len(stateGrid)]) >= 3
    /\ \E n \in 1 .. Len(dispatched) : dispatched[n].to = "scanner"
    /\ \E n \in 1 .. Len(dispatched) : dispatched[n].to = "predictor"
    /\ \E n \in 1 .. Len(dispatched) : dispatched[n].to = "completer"
    /\ numIterationsDone > Cardinality({n \in 1 .. Len(dispatched) :
                                          dispatched[n].to = "predictor"})
    /\ numIterationsDone < GridSize(stateGrid, Len(stateGrid))

(***************************************************************************)
(* C37  Rejection only by undefined.  When a call with a builder has       *)
(* returned, a complete state of the top rule in the last state set is     *)
(* missing from the result, itself and as a tree the comparator reports    *)
(* equal, exactly when a call of the builder made for it returned          *)
(* undefined; a tree for which the builder returned null at the root is    *)
(* in the result.                                                          *)
(***************************************************************************)
C37_RejectedOnlyByUndefined ==
    (pc = "returned" /\ defaults.expressionBuilder # "null") =>
        \A n \in ResultPositions :
            NotRejected(n) <=> Contributed(LastSetRoots[n])

(***************************************************************************)
(* C38  Termination under a limit.  With maxIterations = M > 0 a call of   *)
(* parse that has begun comes to its end, for the grammars with cycles     *)
(* too: it returns, or it throws the iteration-limit error or the error    *)
(* of the unknown nonterminal; and the state sets stay below the length    *)
(* at which the model stops a completer.                                   *)
(***************************************************************************)
C38_TerminatesUnderLimit ==
    /\ (pc \in {"loop", "results"} /\ defaults.maxIterations > 0)
           ~> (pc \in {"returned", "threw"})
    /\ [](defaults.maxIterations > 0 =>
             /\ \A k \in 1 .. Len(stateGrid) : Len(stateGrid[k]) < MaxSetLen
             /\ pc = "threw" => error \in {ErrMaxIterations, ErrUnknown})

\* A call on the grammar A -> A | /a/ with a limit has thrown the
\* iteration-limit error after the completion of A -> A . had pushed a
\* state that its state set held already.
C38_Witness ==
    /\ defaults.maxIterations > 0
    /\ pc = "threw"
    /\ error = ErrMaxIterations
    /\ \E k \in 1 .. Len(stateGrid) :
           \E m, n \in 1 .. Len(stateGrid[k]) :
               /\ m < n
               /\ stateGrid[k][m].pos = 1
               /\ SameItem(stateGrid[k][m], stateGrid[k][n])
    /\ \E r \in 1 .. Len(rules[A]) : rules[A][r] = << Name(A) >>

(***************************************************************************)
(* C39  Termination of tokenize.  Every pass of the while loop of          *)
(* tokenize either leaves the remaining input strictly shorter and goes    *)
(* on, or leaves it as it was and returns null; a pass whose first         *)
(* matching type matched the empty text returns null; and the passes made  *)
(* are never more than the characters of the string, so that every call   *)
(* returns.                                                                *)
(***************************************************************************)
LastPassEmpty(log) == log # << >> /\ log[Len(log)].text = << >>

PassCount ==
    Len(passes) + (IF pc = "failed" /\ ~LastPassEmpty(passes) THEN 1 ELSE 0)

\* The length of the remaining input before each logged pass and now.
Lengths == [k \in 1..(Len(passes) + 1) |->
               IF k <= Len(passes) THEN Len(passes[k].input) ELSE Len(remaining)]

C39_TokenizeTerminates ==
    /\ [](pc \in {"tokenize", "tokenized", "failed"} =>
            /\ \A k \in 1..Len(passes) :
                  \/ Lengths[k + 1] < Lengths[k]
                  \/ k = Len(passes) /\ Lengths[k + 1] = Lengths[k] /\ pc = "failed"
            /\ LastPassEmpty(passes) => pc = "failed"
            /\ PassCount <= Len(args.input.s))
    /\ (pc = "tokenize") ~> (pc \in {"tokenized", "failed"})

\* After a pass that took a character off the input, the first matching
\* type has matched the empty text and tokenize has returned null.
C39_Witness ==
    /\ pc = "failed"
    /\ Len(passes) >= 2
    /\ LastPassEmpty(passes)
    /\ passes[1].text # << >>
    /\ remaining # << >>

(***************************************************************************)
(* C40  The yield of an item.  In a parse with addCategories false and no  *)
(* expressionBuilder, the input tokens at the leaves of the got of every   *)
(* item of state set i, read from left to right, are the tokens            *)
(* input[ori .. i-1]; so the item spans i - ori tokens, and a complete     *)
(* item of the top rule in the last state set spans the whole input.       *)
(***************************************************************************)
RECURSIVE TokensOf(_, _)
TokensOf(list, n) ==
    IF n > Len(list) THEN << >>
    ELSE (IF list[n].k = "arr" THEN TokensOf(list[n].c, 1) ELSE << list[n] >>)
             \o TokensOf(list, n + 1)

TokensIn(got) == TokensOf(got, 1)

NoCategoriesNoBuilder == ~defaults.addCategories /\ defaults.expressionBuilder = "null"

C40_YieldIsSpan ==
    (pc \in {"loop", "results", "returned", "threw"} /\ NoCategoriesNoBuilder) =>
        \A n \in 1 .. Len(stateGrid) : \A m \in 1 .. Len(stateGrid[n]) :
            /\ stateGrid[n][m].ori <= n - 1
            /\ TokensIn(stateGrid[n][m].got) = SubSeq(input, stateGrid[n][m].ori + 1, n - 1)

\* A parse of three tokens has returned a result; a complete item of the
\* top rule carries the whole input, and an item that began after the
\* first token carries more than one token under a nested array.
C40_Witness ==
    /\ pc = "returned"
    /\ NoCategoriesNoBuilder
    /\ Len(input) >= 3
    /\ results # << >>
    /\ \E m \in 1 .. Len(stateGrid[Len(input) + 1]) :
          LET s == stateGrid[Len(input) + 1][m]
          IN  /\ s.lhs = << >> /\ s.pos = 1 /\ s.ori = 0
              /\ TokensIn(s.got) = input
    /\ \E n \in 1 .. Len(stateGrid) : \E m \in 1 .. Len(stateGrid[n]) :
          LET s == stateGrid[n][m]
          IN  /\ s.ori >= 1
              /\ Len(TokensIn(s.got)) >= 2
              /\ \E q \in 1 .. Len(s.got) : s.got[q].k = "arr"

====
